---- MODULE Spec2Model ----
(***************************************************************************)
(* A model of the module packer of deno_emit (rs-lib/src/pack/mod.rs).     *)
(*                                                                         *)
(* Text is a sequence of lexemes (TLA+ strings); a byte offset of the      *)
(* source is an index into that sequence, so every lexeme is one "byte"    *)
(* wide.  Whitespace lexemes are " " and "\n".  A Rust String is a TLA+     *)
(* string, built with \o where the code uses format!.                      *)
(***************************************************************************)
EXTENDS Integers, Sequences, FiniteSets, TLC

VARIABLES
  graph,               \* the ModuleGraph handed to pack: specifier -> module
  roots,               \* graph.roots
  parser,              \* the parser handed to pack: the modules it rejects
  include_remote,      \* PackOptions.include_remote
  hash_seed,           \* the iteration order of this run's HashSets
  pc,                  \* where pack is: start, walk, declare, emit, then
                       \* done (Ok), error (Err) or panic
  walker,              \* the state of the graph.walk iterator
  ordered_specifiers,  \* pack's ordered_specifiers
  module_data,         \* context.module_data.module_data: specifier -> ModuleData
  final_text,          \* pack's final_text, one element per push_str
  idx,                 \* the position of the running for loop
  query                \* a running get_export_names call: the frames of
                       \* inner on the stack, its seen and result sets

vars == <<graph, roots, parser, include_remote, hash_seed, pc, walker,
          ordered_specifiers, module_data, final_text, idx, query>>

\* let v = ... in F(v): the value is computed once
With(v, F(_)) == F(v)

(***************************************************************************)
(* Bounds of the model.                                                    *)
(***************************************************************************)
MaxCalls == 6         \* get_mut calls of a registry run
MaxSeed == 1          \* the hashers of a run are 0..MaxSeed
MaxRootImports == 2   \* import declarations of the root of a linked program
MaxUses == 2          \* statements that use the imports of a program
MaxItems == 2         \* statements of a module without imports and exports
MaxChanges == 3       \* text changes pushed before they are applied
MaxOffset == 2        \* the length of the text the changes are applied to

(***************************************************************************)
(* Module specifiers.                                                      *)
(*                                                                         *)
(* A specifier is [scheme, folder, name]; its text is the pieces of the     *)
(* folder, then "/", then the name.  No piece is the start of another one, *)
(* so one text starts with another exactly when its pieces do.             *)
(***************************************************************************)
Sp(scheme, folder, name) == [scheme |-> scheme, folder |-> folder, name |-> name]

FileRoot == <<"file://">>

RootSpecifier == Sp("file", FileRoot, "mod.ts")
SpecA == Sp("file", FileRoot, "a.ts")
SpecB == Sp("file", FileRoot, "b.ts")
SpecC == Sp("file", FileRoot, "c.ts")
SpecJson == Sp("file", FileRoot, "data.json")
SpecLib == Sp("file", <<"file://", "/", "lib">>, "u.ts")
SpecRemote == Sp("https", <<"https://", "x.land">>, "r.ts")
SpecRemoteJson == Sp("https", <<"https://", "x.land">>, "cfg.json")
SpecNpm == Sp("npm", <<"npm:">>, "pkg")

AllSpecifiers ==
  {RootSpecifier, SpecA, SpecB, SpecC, SpecJson, SpecLib, SpecRemote,
   SpecRemoteJson, SpecNpm}

\* the String a sequence of pieces spells
RECURSIVE Join(_)
Join(pieces) == IF pieces = <<>> THEN "" ELSE pieces[1] \o Join(Tail(pieces))

Pieces(s) == s.folder \o <<"/", s.name>>

\* ModuleSpecifier::as_str / to_string
AsStr(s) == Join(Pieces(s))

(***************************************************************************)
(* The module registry.                                                    *)
(***************************************************************************)
\* ModuleId::to_code_string: format!("pack{}", self.0)
Digits == <<"0", "1", "2", "3", "4", "5", "6", "7", "8", "9">>

ToCodeString(id) == "pack" \o Digits[id + 1]

NewModuleData(next_id) ==
  [id |-> next_id, has_tla |-> FALSE, exports |-> <<>>, re_exports |-> <<>>,
   text_changes |-> <<>>, requires_transpile |-> FALSE]

\* ModuleDataCollection::get_mut: the collection after the call
GetMutOverwrite(md, s) ==
  (s :> NewModuleData(Cardinality(DOMAIN md))) @@ md

\* get_mut with ids counted from one
GetMutFromOne(md, s) ==
  IF s \in DOMAIN md THEN md
  ELSE (s :> NewModuleData(Cardinality(DOMAIN md) + 1)) @@ md

GetMut(md, s) ==
  IF s \in DOMAIN md THEN md
  ELSE (s :> NewModuleData(Cardinality(DOMAIN md))) @@ md

(***************************************************************************)
(* Source files and their syntax trees.                                    *)
(*                                                                         *)
(* A source file is a sequence of items, each a record naming one          *)
(* top-level statement or declaration.  ParseModule gives the tree the     *)
(* parser hands to analyze_esm_module: a node is a record                  *)
(*   kind  - the NodeKind, or "tok" / "ws" for a token / whitespace        *)
(*   sym   - an identifier's symbol, a token's text, a string's value      *)
(*   ctxt  - an identifier's syntax context ("top": the module scope,      *)
(*           "inner": a nested scope, "unres": a global, "": unresolved)   *)
(*   flags - the node's boolean attributes (declare, type_only, ...)       *)
(*   parts - its tokens, whitespace and child nodes, in source order       *)
(* and the text of a node is the concatenation of the text of its parts.  *)
(***************************************************************************)
Nd(kind, sym, flags, parts) ==
  [kind |-> kind, sym |-> sym, ctxt |-> "", flags |-> flags, parts |-> parts]

Tok(s) == Nd("tok", s, {}, <<>>)
W == Nd("ws", " ", {}, <<>>)
NL == Nd("ws", "\n", {}, <<>>)
Ident(name, ctxt) ==
  [kind |-> "Ident", sym |-> name, ctxt |-> ctxt, flags |-> {}, parts |-> <<>>]
Str(value) == Nd("Str", value, {}, <<>>)
Num(text) == Nd("Number", text, {}, <<>>)

LeafKinds == {"tok", "ws", "Ident", "Str", "Number"}

\* the text of a leaf as it stands in the source
Lexeme(leaf) ==
  IF leaf.kind = "Str" THEN "\"" \o leaf.sym \o "\"" ELSE leaf.sym

IsWs(lexeme) == lexeme \in {" ", "\n"}

\* the leaves of a tree, in source order
RECURSIVE Leaves(_)
Leaves(node) ==
  IF node.kind \in LeafKinds THEN <<node>>
  ELSE LET RECURSIVE Cat(_)
           Cat(i) == IF i > Len(node.parts) THEN <<>>
                     ELSE Leaves(node.parts[i]) \o Cat(i + 1)
       IN Cat(1)

\* the source text of a tree, a sequence of lexemes
TextOf(node) == LET l == Leaves(node) IN [i \in 1..Len(l) |-> Lexeme(l[i])]

Width(node) == Len(Leaves(node))

\* Node::children with the offset of each child: <<child, start offset>>
ChildrenAt(node, off) ==
  LET RECURSIVE Go(_, _)
      Go(i, o) ==
        IF i > Len(node.parts) THEN <<>>
        ELSE LET p == node.parts[i]
             IN (IF p.kind \in {"tok", "ws"} THEN <<>> ELSE << <<p, o>> >>)
                \o Go(i + 1, o + Width(p))
  IN Go(1, off)

Children(node) ==
  SelectSeq(node.parts, LAMBDA p : p.kind \notin {"tok", "ws"})

ChildrenOfKind(node, kinds) ==
  SelectSeq(Children(node), LAMBDA c : c.kind \in kinds)

\* the tokens of a file with their ranges (whitespace is no token)
TokensOf(module) ==
  LET l == Leaves(module)
      RECURSIVE Go(_)
      Go(i) == IF i > Len(l) THEN <<>>
               ELSE (IF l[i].kind = "ws" THEN <<>>
                     ELSE <<[kind |-> l[i].kind, text |-> Lexeme(l[i]),
                             lo |-> i - 1, hi |-> i]>>) \o Go(i + 1)
  IN Go(1)

(***************************************************************************)
(* The parser: the tree of each item of a source file.  An item is a       *)
(* record [k, src, a, b]: its form, the import text it names, and up to    *)
(* two identifiers.                                                        *)
(***************************************************************************)
It(k, src, a, b) == [k |-> k, src |-> src, a |-> a, b |-> b]

BindingIdent(name, ctxt) == Nd("BindingIdent", "", {}, <<Ident(name, ctxt)>>)

\* ": T"
TsTypeAnn(t) ==
  Nd("TsTypeAnn", "", {},
     <<Tok(":"), W, Nd("TsTypeRef", "", {}, <<Ident(t, "top")>>)>>)

\* ": ns.T"
TsTypeAnnQualified(ns, t) ==
  Nd("TsTypeAnn", "", {},
     <<Tok(":"), W,
       Nd("TsTypeRef", "", {},
          <<Nd("TsQualifiedName", "", {},
               <<Ident(ns, "top"), Tok("."), Ident(t, "")>>)>>)>>)

TypedBindingIdent(name, ann) ==
  Nd("BindingIdent", "", {}, <<Ident(name, "top"), ann>>)

\* "const <pat> = <init>;"
ConstDecl(flags, pat, init) ==
  Nd("VarDecl", "", flags,
     (IF "declare" \in flags THEN <<Tok("declare"), W>> ELSE <<>>)
     \o <<Tok("const"), W,
          Nd("VarDeclarator", "", {},
             <<pat>> \o (IF init = <<>> THEN <<>>
                         ELSE <<W, Tok("="), W>> \o init))>>
     \o <<Tok(";")>>)

\* "console.log(<arg>);"
LogStmt(arg) ==
  Nd("ExprStmt", "", {},
     <<Nd("CallExpr", "", {},
          <<Nd("MemberExpr", "", {},
               <<Ident("console", "unres"), Tok("."), Ident("log", "")>>),
            Tok("("), Nd("ExprOrSpread", "", {}, <<arg>>), Tok(")")>>),
       Tok(";")>>)

\* "(<param>) { <body> }": the parameters and the body of a function
FunctionOf(flags, param, body) ==
  Nd("Function", "", flags,
     <<Tok("(")>>
     \o (IF param = "" THEN <<>>
         ELSE <<Nd("Param", "", {}, <<BindingIdent(param, "inner")>>)>>)
     \o <<Tok(")")>>
     \o (IF "nobody" \in flags THEN <<>>
         ELSE <<W, Nd("BlockStmt", "", {},
                      <<Tok("{")>> \o body \o <<Tok("}")>>)>>))

ClassBody == Nd("Class", "", {}, <<Tok("{"), Tok("}")>>)

\* "await <name>"
AwaitExpr(name) ==
  Nd("AwaitExpr", "", {}, <<Tok("await"), W, Ident(name, "unres")>>)

\* "() { await <name>; }": an async function that awaits in its body
AwaitingFunction(name) ==
  FunctionOf({"async"}, "",
             <<W, Nd("ExprStmt", "", {}, <<AwaitExpr(name), Tok(";")>>), W>>)

InterfaceDecl(name) ==
  Nd("TsInterfaceDecl", "", {},
     <<Tok("interface"), W, Ident(name, "top"), W,
       Nd("TsInterfaceBody", "", {}, <<Tok("{"), Tok("}")>>)>>)

ImportTail(src) == <<Tok("from"), W, Str(src), Tok(";")>>

ImportNamedSpecifier(flags, imported, local) ==
  Nd("ImportNamedSpecifier", "", flags,
     (IF "type_only" \in flags THEN <<Tok("type"), W>> ELSE <<>>)
     \o (IF imported = "" THEN <<>>
         ELSE <<Ident(imported, ""), W, Tok("as"), W>>)
     \o <<Ident(local, "top")>>)

ExportNamedSpecifier(flags, orig, exported, ctxt) ==
  Nd("ExportNamedSpecifier", "", flags,
     (IF "type_only" \in flags THEN <<Tok("type"), W>> ELSE <<>>)
     \o <<Ident(orig, ctxt)>>
     \o (IF exported = "" THEN <<>>
         ELSE <<W, Tok("as"), W, Ident(exported, "")>>))

ImportItemKinds ==
  {"import_side", "import_named", "import_named_as", "import_named_type",
   "import_type", "import_default", "import_json", "import_ns"}

ParseImport(item) ==
  LET k == item.k
      clause ==
        CASE k = "import_side" -> <<>>
          [] k = "import_named" ->
               <<Tok("{"), W, ImportNamedSpecifier({}, "", item.a)>>
               \o (IF item.b = "" THEN <<>>
                   ELSE <<Tok(","), W, ImportNamedSpecifier({}, "", item.b)>>)
               \o <<W, Tok("}"), W>>
          [] k = "import_named_as" ->
               <<Tok("{"), W, ImportNamedSpecifier({}, item.a, item.b),
                 W, Tok("}"), W>>
          [] k = "import_named_type" ->
               <<Tok("{"), W, ImportNamedSpecifier({"type_only"}, "", item.a),
                 W, Tok("}"), W>>
          [] k = "import_type" ->
               <<Tok("type"), W, Tok("{"), W,
                 ImportNamedSpecifier({}, "", item.a), W, Tok("}"), W>>
          [] k \in {"import_default", "import_json"} ->
               <<Nd("ImportDefaultSpecifier", "", {}, <<Ident(item.a, "top")>>),
                 W>>
          [] k = "import_ns" ->
               <<Nd("ImportStarAsSpecifier", "", {},
                    <<Tok("*"), W, Tok("as"), W, Ident(item.a, "top")>>), W>>
      tail ==
        IF k = "import_side" THEN <<Str(item.src), Tok(";")>>
        ELSE IF k = "import_json"
          THEN <<Tok("from"), W, Str(item.src), W, Tok("assert"), W, Tok("{"),
                 W, Tok("type"), Tok(":"), W, Str("json"), W, Tok("}"),
                 Tok(";")>>
          ELSE ImportTail(item.src)
  IN Nd("ImportDecl", item.src,
        IF k = "import_type" THEN {"type_only"} ELSE {},
        <<Tok("import"), W>> \o clause \o tail)

StmtItemKinds ==
  {"use", "use_member", "use_shorthand", "use_kv", "typed_var", "typed_var_q",
   "plain_const", "plain_fn", "plain_class", "await_stmt", "fn_await",
   "fn_expr_await", "arrow_await", "method_await", "as_expr", "declare_var",
   "interface"}

ParseStmt(item) ==
  LET k == item.k
  IN CASE k = "use" -> LogStmt(Ident(item.a, "top"))
       [] k = "use_member" ->
            LogStmt(Nd("MemberExpr", "", {},
                       <<Ident(item.a, "top"), Tok("."), Ident(item.b, "")>>))
       [] k = "use_shorthand" ->
            LogStmt(Nd("ObjectLit", "", {},
                       <<Tok("{"), W, Ident(item.a, "top"), W, Tok("}")>>))
       [] k = "use_kv" ->
            LogStmt(Nd("ObjectLit", "", {},
                       <<Tok("{"), W,
                         Nd("KeyValueProp", "", {},
                            <<Ident(item.b, ""), Tok(":"), W,
                              Nd("MemberExpr", "", {},
                                 <<Ident(item.a, "top"), Tok("."),
                                   Ident(item.b, "")>>)>>),
                         W, Tok("}")>>))
       [] k = "typed_var" ->
            ConstDecl({}, TypedBindingIdent("v", TsTypeAnn(item.a)),
                      <<Num("1")>>)
       [] k = "typed_var_q" ->
            ConstDecl({},
                      TypedBindingIdent("v", TsTypeAnnQualified(item.a, item.b)),
                      <<Num("1")>>)
       [] k = "plain_const" ->
            ConstDecl({}, BindingIdent(item.a, "top"), <<Num("1")>>)
       [] k = "plain_fn" ->
            Nd("FnDecl", "", {},
               <<Tok("function"), W, Ident(item.a, "top"),
                 FunctionOf({}, item.b,
                            <<W, Nd("ReturnStmt", "", {},
                                    <<Tok("return"), W, Ident(item.b, "inner"),
                                      Tok(";")>>), W>>)>>)
       [] k = "plain_class" ->
            Nd("ClassDecl", "", {},
               <<Tok("class"), W, Ident(item.a, "top"), W, ClassBody>>)
       [] k = "await_stmt" ->
            Nd("ExprStmt", "", {},
               <<Nd("AwaitExpr", "", {},
                    <<Tok("await"), W, Ident(item.a, "unres")>>), Tok(";")>>)
       [] k = "fn_await" ->
            Nd("FnDecl", "", {},
               <<Tok("async"), W, Tok("function"), W, Ident(item.a, "top"),
                 FunctionOf({"async"}, "",
                            <<W, Nd("ExprStmt", "", {},
                                    <<Nd("AwaitExpr", "", {},
                                         <<Tok("await"), W,
                                           Ident(item.b, "unres")>>),
                                      Tok(";")>>), W>>)>>)
       [] k = "fn_expr_await" ->
            ConstDecl({}, BindingIdent(item.a, "top"),
                      <<Nd("FnExpr", "", {},
                           <<Tok("async"), W, Tok("function"),
                             AwaitingFunction(item.b)>>)>>)
       [] k = "arrow_await" ->
            ConstDecl({}, BindingIdent(item.a, "top"),
                      <<Nd("ArrowExpr", "", {},
                           <<Tok("async"), W, Tok("("), Tok(")"), W, Tok("=>"),
                             W,
                             Nd("BlockStmt", "", {},
                                <<Tok("{"), W,
                                  Nd("ExprStmt", "", {},
                                     <<AwaitExpr(item.b), Tok(";")>>),
                                  W, Tok("}")>>)>>)>>)
       [] k = "method_await" ->
            Nd("ClassDecl", "", {},
               <<Tok("class"), W, Ident(item.a, "top"), W,
                 Nd("Class", "", {},
                    <<Tok("{"), W,
                      Nd("ClassMethod", "", {},
                         <<Tok("async"), W, Ident("m", ""),
                           AwaitingFunction(item.b)>>),
                      W, Tok("}")>>)>>)
       [] k = "as_expr" ->
            ConstDecl({}, BindingIdent("v", "top"),
                      <<Nd("TsAsExpr", "", {},
                           <<Ident(item.a, "top"), W, Tok("as"), W,
                             Nd("TsTypeRef", "", {}, <<Ident(item.b, "top")>>)>>)>>)
       [] k = "declare_var" ->
            ConstDecl({"declare"},
                      TypedBindingIdent(item.a, TsTypeAnn("number")), <<>>)
       [] k = "interface" -> InterfaceDecl(item.a)

ExportDeclOf(decl) == Nd("ExportDecl", "", {}, <<Tok("export"), W, decl>>)

ExportDefaultDeclOf(decl) ==
  Nd("ExportDefaultDecl", "", {}, <<Tok("export"), W, Tok("default"), W, decl>>)

ExportItemKinds ==
  {"export_const", "export_const_await", "export_const_use",
   "export_array_pat", "export_object_pat", "export_object_assign",
   "export_fn",
   "export_class", "export_interface", "export_type", "export_declare_const", "export_declare_fn",
   "export_default_class", "export_default_fn", "export_default_interface",
   "export_default_expr", "export_named", "export_named_type",
   "export_named_from", "export_named_from_type", "export_type_from",
   "export_ns_from", "export_all"}

ParseExport(item) ==
  LET k == item.k
  IN CASE k = "export_const" ->
            ExportDeclOf(ConstDecl({}, BindingIdent(item.a, "top"), <<Num("1")>>))
       [] k = "export_const_await" ->
            ExportDeclOf(ConstDecl({}, BindingIdent(item.a, "top"),
                                   <<AwaitExpr(item.b)>>))
       [] k = "export_const_use" ->
            ExportDeclOf(ConstDecl({}, BindingIdent(item.a, "top"),
                                   <<Ident(item.b, "top")>>))
       [] k = "export_array_pat" ->
            ExportDeclOf(ConstDecl({},
                                   Nd("ArrayPat", "", {},
                                      <<Tok("["), BindingIdent(item.a, "top"),
                                        Tok("]")>>),
                                   <<Num("1")>>))
       [] k = "export_object_pat" ->
            \* export const { <a>: <b>, ...rest } = o;
            ExportDeclOf(ConstDecl({},
                                   Nd("ObjectPat", "", {},
                                      <<Tok("{"), W,
                                        Nd("KeyValuePatProp", "", {},
                                           <<Ident(item.a, ""), Tok(":"), W,
                                             BindingIdent(item.b, "top")>>),
                                        Tok(","), W,
                                        Nd("RestPat", "", {},
                                           <<Tok("..."),
                                             BindingIdent("rest", "top")>>),
                                        W, Tok("}")>>),
                                   <<Ident("o", "top")>>))
       [] k = "export_object_assign" ->
            \* export const { <a> } = o;
            ExportDeclOf(ConstDecl({},
                                   Nd("ObjectPat", "", {},
                                      <<Tok("{"), W,
                                        Nd("AssignPatProp", "", {},
                                           <<Ident(item.a, "top")>>),
                                        W, Tok("}")>>),
                                   <<Ident("o", "top")>>))
       [] k = "export_fn" ->
            ExportDeclOf(Nd("FnDecl", "", {},
                            <<Tok("function"), W, Ident(item.a, "top"),
                              FunctionOf({}, "", <<>>)>>))
       [] k = "export_class" ->
            ExportDeclOf(Nd("ClassDecl", "", {},
                            <<Tok("class"), W, Ident(item.a, "top"), W,
                              ClassBody>>))
       [] k = "export_interface" -> ExportDeclOf(InterfaceDecl(item.a))
       [] k = "export_type" ->
            ExportDeclOf(Nd("TsTypeAliasDecl", "", {},
                            <<Tok("type"), W, Ident(item.a, "top"), W, Tok("="),
                              W, Nd("TsKeywordType", "", {}, <<Tok("string")>>),
                              Tok(";")>>))
       [] k = "export_declare_const" ->
            ExportDeclOf(ConstDecl({"declare"},
                                   TypedBindingIdent(item.a, TsTypeAnn("number")),
                                   <<>>))
       [] k = "export_declare_fn" ->
            ExportDeclOf(Nd("FnDecl", "", {"declare"},
                            <<Tok("declare"), W, Tok("function"), W,
                              Ident(item.a, "top"),
                              FunctionOf({"nobody"}, "", <<>>), Tok(";")>>))
       [] k = "export_default_class" ->
            ExportDefaultDeclOf(
              Nd("ClassExpr", "", {},
                 <<Tok("class"), W>>
                 \o (IF item.a = "" THEN <<>> ELSE <<Ident(item.a, "top"), W>>)
                 \o <<ClassBody>>))
       [] k = "export_default_fn" ->
            ExportDefaultDeclOf(
              Nd("FnExpr", "", {},
                 <<Tok("function")>>
                 \o (IF item.a = "" THEN <<>> ELSE <<W, Ident(item.a, "top")>>)
                 \o <<FunctionOf({}, "", <<>>)>>))
       [] k = "export_default_interface" ->
            ExportDefaultDeclOf(InterfaceDecl(item.a))
       [] k = "export_default_expr" ->
            Nd("ExportDefaultExpr", "", {},
               <<Tok("export"), W, Tok("default"), W, Ident(item.a, "top"),
                 Tok(";")>>)
       [] k \in {"export_named", "export_named_type"} ->
            Nd("NamedExport", "", {},
               <<Tok("export"), W, Tok("{"), W,
                 ExportNamedSpecifier(
                   IF k = "export_named_type" THEN {"type_only"} ELSE {},
                   item.a, item.b, "top"),
                 W, Tok("}"), Tok(";")>>)
       [] k = "export_named_from" ->
            Nd("NamedExport", item.src, {"has_src"},
               <<Tok("export"), W, Tok("{"), W,
                 ExportNamedSpecifier({}, item.a, item.b, ""),
                 W, Tok("}"), W>> \o ImportTail(item.src))
       [] k = "export_named_from_type" ->
            \* export { type <a> } from "<src>";
            Nd("NamedExport", item.src, {"has_src"},
               <<Tok("export"), W, Tok("{"), W,
                 ExportNamedSpecifier({"type_only"}, item.a, item.b, ""),
                 W, Tok("}"), W>> \o ImportTail(item.src))
       [] k = "export_type_from" ->
            \* export type { <a> } from "<src>";
            Nd("NamedExport", item.src, {"has_src", "type_only"},
               <<Tok("export"), W, Tok("type"), W, Tok("{"), W,
                 ExportNamedSpecifier({}, item.a, item.b, ""),
                 W, Tok("}"), W>> \o ImportTail(item.src))
       [] k = "export_ns_from" ->
            Nd("NamedExport", item.src, {"has_src"},
               <<Tok("export"), W,
                 Nd("ExportNamespaceSpecifier", "", {},
                    <<Tok("*"), W, Tok("as"), W, Ident(item.a, "")>>), W>>
               \o ImportTail(item.src))
       [] k = "export_all" ->
            Nd("ExportAll", item.src, {},
               <<Tok("export"), W, Tok("*"), W>> \o ImportTail(item.src))

ParseItem(item) ==
  IF item.k \in ImportItemKinds THEN ParseImport(item)
  ELSE IF item.k \in ExportItemKinds THEN ParseExport(item)
  ELSE ParseStmt(item)

\* parser.parse_module: the Module node of a source file; every item starts
\* on a line of its own
ParseModule(source) ==
  LET RECURSIVE Go(_)
      Go(i) == IF i > Len(source) THEN <<>>
               ELSE <<NL, ParseItem(source[i])>> \o Go(i + 1)
  IN Nd("Module", "", {}, Go(1) \o <<NL>>)

(***************************************************************************)
(* The module graph, as far as pack reads it.                              *)
(***************************************************************************)
\* the text an importer writes to name a module
ImportText(s) ==
  IF s.scheme = "file"
    THEN "./" \o Join(SubSeq(Pieces(s), 3, Len(Pieces(s))))
    ELSE AsStr(s)

\* graph.resolve_dependency(value, referrer, false): <<specifier>>, or <<>>
\* (None) when the text names no module of the graph
ResolveDependency(g, value) ==
  LET hit == {s \in DOMAIN g : ImportText(s) = value}
  IN IF hit = {} THEN <<>> ELSE <<CHOOSE s \in hit : TRUE>>

IsRoot(s) == s = RootSpecifier

(***************************************************************************)
(* analyze_esm_module, pass A: the import aliases and top-level await.     *)
(***************************************************************************)
FunctionBoundaryKinds == {"FnDecl", "FnExpr", "ArrowExpr", "ClassMethod"}

\* has_function_scoped_node(node, |n| n.is::<kind>())
RECURSIVE HasFunctionScopedNode(_, _)
HasFunctionScopedNode(node, kind) ==
  \/ node.kind = kind
  \/ LET children == Children(node)
     IN \E i \in 1..Len(children) :
          /\ children[i].kind \notin FunctionBoundaryKinds
          /\ HasFunctionScopedNode(children[i], kind)

ModuleDeclKinds ==
  {"ImportDecl", "ExportDefaultDecl", "ExportDefaultExpr", "ExportDecl",
   "NamedExport", "ExportAll", "TsImportEqualsDecl", "TsExportAssignment",
   "TsNamespaceExportDecl"}

ToId(ident) == <<ident.sym, ident.ctxt>>

Idents(node) == ChildrenOfKind(node, {"Ident"})

\* replace_ids.insert with a default import bound to the member
\* __pack_default__ of the namespace object
InsertImportSpecifierPackDefault(replace_ids, specifier, dep_id) ==
  LET ids == Idents(specifier)
      local == ids[Len(ids)]
      code == ToCodeString(dep_id)
  IN CASE specifier.kind = "ImportDefaultSpecifier" ->
            (ToId(local) :> (code \o ".__pack_default__")) @@ replace_ids
       [] specifier.kind = "ImportStarAsSpecifier" ->
            (ToId(local) :> code) @@ replace_ids
       [] specifier.kind = "ImportNamedSpecifier" ->
            IF "type_only" \in specifier.flags THEN replace_ids
            ELSE (ToId(local) :> (code \o "." \o ids[1].sym)) @@ replace_ids

\* replace_ids.insert for one import specifier
InsertImportSpecifier(replace_ids, specifier, dep_id) ==
  LET ids == Idents(specifier)
      local == ids[Len(ids)]
      code == ToCodeString(dep_id)
  IN CASE specifier.kind = "ImportDefaultSpecifier" ->
            (ToId(local) :> (code \o ".default")) @@ replace_ids
       [] specifier.kind = "ImportStarAsSpecifier" ->
            (ToId(local) :> code) @@ replace_ids
       [] specifier.kind = "ImportNamedSpecifier" ->
            IF "type_only" \in specifier.flags THEN replace_ids
            ELSE (ToId(local) :> (code \o "." \o ids[1].sym)) @@ replace_ids

ImportSpecifierKinds ==
  {"ImportDefaultSpecifier", "ImportStarAsSpecifier", "ImportNamedSpecifier"}

\* the first loop over module.body (lines 468-550) from item i on; acc is
\* [ok, md, replace_ids, found_tla], ok = FALSE once a todo!() was reached
RECURSIVE AnalyzeImports(_, _, _, _)
AnalyzeImports(g, body, i, acc) ==
  IF i > Len(body) \/ ~acc.ok THEN acc
  ELSE
    LET item == body[i]
        next ==
          IF item.kind \notin ModuleDeclKinds
            THEN [acc EXCEPT !.found_tla =
                    acc.found_tla \/ HasFunctionScopedNode(item, "AwaitExpr")]
          ELSE IF item.kind # "ImportDecl" \/ "type_only" \in item.flags
            THEN acc
          ELSE
            LET dep == ResolveDependency(g, item.sym)
            IN IF dep = <<>> THEN [acc EXCEPT !.ok = FALSE]
               ELSE
                 LET md1 == GetMut(acc.md, dep[1])
                     dep_id == md1[dep[1]].id
                     specs == ChildrenOfKind(item, ImportSpecifierKinds)
                     RECURSIVE Ins(_, _)
                     Ins(j, r) ==
                       IF j > Len(specs) THEN r
                       ELSE Ins(j + 1, InsertImportSpecifier(r, specs[j], dep_id))
                 IN [acc EXCEPT !.md = md1,
                                !.replace_ids = Ins(1, acc.replace_ids)]
    IN AnalyzeImports(g, body, i + 1, next)

(***************************************************************************)
(* analyze_esm_module, pass A: the exports and re-exports.                 *)
(***************************************************************************)
None == <<>>
Some(x) == <<x>>

ExportName(local_name, export_name) ==
  [local_name |-> local_name, export_name |-> export_name]

\* ExportName::export_name
ExportNameOf(e) ==
  IF e.export_name # None THEN e.export_name[1] ELSE e.local_name

ReExport(tag, local_name, export_name, specifier, module_id) ==
  [name |-> [tag |-> tag, local_name |-> local_name,
             export_name |-> export_name],
   specifier |-> specifier, module_id |-> module_id]

PushExport(md, s, e) == [md EXCEPT ![s].exports = Append(@, e)]

\* ModuleData::add_export_name
AddExportName(md, s, name) == PushExport(md, s, ExportName(name, None))

PushReExport(md, s, r) == [md EXCEPT ![s].re_exports = Append(@, r)]

\* the names one declarator of an exported var declaration records (lines
\* 638-684): [ok, names], ok = FALSE where the code reaches todo!()
ExportNamesOfPat(pat) ==
  CASE pat.kind = "BindingIdent" ->
         [ok |-> TRUE, names |-> <<Idents(pat)[1].sym>>]
    [] pat.kind = "ObjectPat" ->
         LET props == Children(pat)
             RECURSIVE Go(_)
             Go(j) ==
               IF j > Len(props) THEN [ok |-> TRUE, names |-> <<>>]
               ELSE
                 LET prop == props[j]
                     rest == Go(j + 1)
                     here ==
                       CASE prop.kind = "KeyValuePatProp" ->
                              LET key == Children(prop)[1]
                              IN CASE key.kind = "Ident" ->
                                        [ok |-> TRUE, names |-> <<key.sym>>]
                                   [] key.kind = "Str" ->
                                        [ok |-> FALSE, names |-> <<>>]
                                   [] OTHER -> [ok |-> TRUE, names |-> <<>>]
                         [] prop.kind = "AssignPatProp" ->
                              [ok |-> TRUE, names |-> <<Idents(prop)[1].sym>>]
                         [] prop.kind = "RestPat" ->
                              LET arg == Children(prop)[1]
                              IN IF arg.kind = "BindingIdent"
                                   THEN [ok |-> TRUE,
                                         names |-> <<Idents(arg)[1].sym>>]
                                   ELSE [ok |-> FALSE, names |-> <<>>]
                 IN [ok |-> here.ok /\ rest.ok,
                     names |-> here.names \o rest.names]
         IN Go(1)
    [] OTHER -> [ok |-> FALSE, names |-> <<>>]

AnalyzeExportDefaultDeclAnonymous(acc, s, item, is_root) ==
  IF is_root \/ Children(item)[1].kind = "TsInterfaceDecl" THEN acc
  ELSE [acc EXCEPT !.md = PushExport(acc.md, s,
          ExportName("__pack_default__", Some("default")))]

\* ModuleDecl::ExportDefaultDecl (lines 566-596)
AnalyzeExportDefaultDecl(acc, s, item, is_root) ==
  LET decl == Children(item)[1]
      ids == Idents(decl)
  IN IF is_root \/ decl.kind = "TsInterfaceDecl" THEN acc
     ELSE IF ids # <<>>
       THEN [acc EXCEPT !.md = PushExport(acc.md, s,
               ExportName(IF ToId(ids[1]) \in DOMAIN acc.replace_ids
                            THEN acc.replace_ids[ToId(ids[1])]
                            ELSE ids[1].sym,
                          Some("default")))]
       ELSE [acc EXCEPT !.md = PushExport(acc.md, s,
               ExportName("__pack_default__", Some("default")))]

\* ModuleDecl::ExportDefaultExpr (lines 597-604)
AnalyzeExportDefaultExpr(acc, s, item, is_root) ==
  [acc EXCEPT !.md = PushExport(acc.md, s,
     ExportName("__pack_default__", Some("default")))]

\* ModuleDecl::ExportDecl (lines 605-714)
AnalyzeExportDecl(acc, s, item, is_root) ==
  LET decl == Children(item)[1]
  IN IF is_root THEN acc
     ELSE IF decl.kind \in {"TsInterfaceDecl", "TsTypeAliasDecl"} THEN acc
     ELSE IF "declare" \in decl.flags THEN acc
     ELSE IF decl.kind \in {"ClassDecl", "FnDecl", "TsEnumDecl"}
       THEN [acc EXCEPT !.md = AddExportName(acc.md, s, Idents(decl)[1].sym)]
     ELSE IF decl.kind = "TsModuleDecl"
       THEN IF Idents(decl) # <<>>
              THEN [acc EXCEPT !.md =
                      AddExportName(acc.md, s, Idents(decl)[1].sym)]
              ELSE acc
     ELSE \* Decl::Var
       LET decls == ChildrenOfKind(decl, {"VarDeclarator"})
           RECURSIVE Go(_, _)
           Go(j, a) ==
             IF j > Len(decls) \/ ~a.ok THEN a
             ELSE
               LET r == ExportNamesOfPat(Children(decls[j])[1])
                   RECURSIVE Add(_, _)
                   Add(n, m) ==
                     IF n > Len(r.names) THEN m
                     ELSE Add(n + 1, AddExportName(m, s, r.names[n]))
               IN Go(j + 1, [a EXCEPT !.md = Add(1, a.md), !.ok = r.ok])
       IN Go(1, acc)

ExportSpecifierKinds ==
  {"ExportNamedSpecifier", "ExportNamespaceSpecifier",
   "ExportDefaultSpecifier"}

\* the specifiers of `export { ... } from "dep"` (lines 729-772)
RECURSIVE AnalyzeReExportSpecifiers(_, _, _, _, _, _)
AnalyzeReExportSpecifiers(acc, s, specs, j, dep, dep_id) ==
  IF j > Len(specs) \/ ~acc.ok THEN acc
  ELSE
    LET sp == specs[j]
        ids == Idents(sp)
        next ==
          CASE sp.kind = "ExportDefaultSpecifier" -> [acc EXCEPT !.ok = FALSE]
            [] sp.kind = "ExportNamedSpecifier" ->
                 IF "type_only" \in sp.flags THEN acc
                 ELSE [acc EXCEPT !.md = PushReExport(acc.md, s,
                         ReExport("Named", ids[1].sym,
                                  IF Len(ids) > 1 THEN Some(ids[2].sym) ELSE None,
                                  dep, dep_id))]
            [] sp.kind = "ExportNamespaceSpecifier" ->
                 [acc EXCEPT !.md = PushReExport(acc.md, s,
                    ReExport("Namespace", ids[1].sym, None, dep, dep_id))]
    IN AnalyzeReExportSpecifiers(next, s, specs, j + 1, dep, dep_id)

\* the specifiers of an export without source, with no export name but
\* the one written after `as`
RECURSIVE AnalyzeLocalExportSpecifiersExplicitOnly(_, _, _, _)
AnalyzeLocalExportSpecifiersExplicitOnly(acc, s, specs, j) ==
  IF j > Len(specs) THEN acc
  ELSE
    LET ids == Idents(specs[j])
        local_name == IF ToId(ids[1]) \in DOMAIN acc.replace_ids
                        THEN acc.replace_ids[ToId(ids[1])]
                        ELSE ids[1].sym
        export_name == IF Len(ids) > 1 THEN Some(ids[2].sym) ELSE None
    IN AnalyzeLocalExportSpecifiersExplicitOnly(
         [acc EXCEPT !.md = PushExport(acc.md, s,
                                       ExportName(local_name, export_name))],
         s, specs, j + 1)

\* the specifiers of `export { ... }` (lines 781-820)
RECURSIVE AnalyzeLocalExportSpecifiers(_, _, _, _)
AnalyzeLocalExportSpecifiers(acc, s, specs, j) ==
  IF j > Len(specs) THEN acc
  ELSE
    LET ids == Idents(specs[j])
        ident_text == ids[1].sym
        local_name == IF ToId(ids[1]) \in DOMAIN acc.replace_ids
                        THEN acc.replace_ids[ToId(ids[1])]
                        ELSE ident_text
        local_name_as_export ==
          IF ident_text # local_name THEN Some(ident_text) ELSE None
        export_name ==
          IF Len(ids) > 1 THEN Some(ids[2].sym) ELSE local_name_as_export
    IN AnalyzeLocalExportSpecifiers(
         [acc EXCEPT !.md = PushExport(acc.md, s,
                                       ExportName(local_name, export_name))],
         s, specs, j + 1)

\* ModuleDecl::ExportNamed (lines 715-822)
AnalyzeExportNamed(g, acc, s, item) ==
  LET specs == ChildrenOfKind(item, ExportSpecifierKinds)
  IN IF "type_only" \in item.flags THEN acc
     ELSE IF "has_src" \in item.flags
       THEN LET dep == ResolveDependency(g, item.sym)
            IN IF dep = <<>> THEN [acc EXCEPT !.ok = FALSE]
               ELSE LET md1 == GetMut(acc.md, dep[1])
                    IN AnalyzeReExportSpecifiers(
                         [acc EXCEPT !.md = GetMut(md1, s)], s, specs, 1,
                         dep[1], md1[dep[1]].id)
       ELSE AnalyzeLocalExportSpecifiers(
              [acc EXCEPT !.md = GetMut(acc.md, s)], s, specs, 1)

\* ModuleDecl::ExportAll (lines 823-845)
AnalyzeExportAll(g, acc, s, item) ==
  IF "type_only" \in item.flags THEN acc
  ELSE LET dep == ResolveDependency(g, item.sym)
       IN IF dep = <<>> THEN [acc EXCEPT !.ok = FALSE]
          ELSE LET md1 == GetMut(acc.md, dep[1])
               IN [acc EXCEPT !.md =
                     PushReExport(GetMut(md1, s), s,
                                  ReExport("All", "", None, dep[1],
                                           md1[dep[1]].id))]

\* the second loop over module.body (lines 559-851) from item i on
RECURSIVE AnalyzeExports(_, _, _, _, _, _)
AnalyzeExports(g, body, i, acc, s, is_root) ==
  IF i > Len(body) \/ ~acc.ok THEN acc
  ELSE
    LET item == body[i]
        next ==
          CASE item.kind = "ExportDefaultDecl" ->
                 AnalyzeExportDefaultDecl(acc, s, item, is_root)
            [] item.kind = "ExportDefaultExpr" ->
                 AnalyzeExportDefaultExpr(acc, s, item, is_root)
            [] item.kind = "ExportDecl" ->
                 AnalyzeExportDecl(acc, s, item, is_root)
            [] item.kind = "NamedExport" -> AnalyzeExportNamed(g, acc, s, item)
            [] item.kind = "ExportAll" -> AnalyzeExportAll(g, acc, s, item)
            [] OTHER -> acc
    IN AnalyzeExports(g, body, i + 1, next, s, is_root)

(***************************************************************************)
(* analyze_esm_module, pass B: TextChangeCollector.                        *)
(*                                                                         *)
(* A TextChange is [lo, hi, new_text]: the half-open range lo..hi of the   *)
(* original source and its replacement, a sequence of pieces of text that  *)
(* are either whitespace or neither start nor end with whitespace.  The    *)
(* collector's context cx is [text, toks, is_root, replace_ids]; a visit   *)
(* gives [tc, rt]: the text changes it pushes, in the order of the pushes, *)
(* and whether it sets requires_transpile.                                 *)
(***************************************************************************)
TextChange(lo, hi, new_text) == [lo |-> lo, hi |-> hi, new_text |-> new_text]

NoEffect == [tc |-> <<>>, rt |-> FALSE]
Push(change) == [tc |-> <<change>>, rt |-> FALSE]
Then(e1, e2) == [tc |-> e1.tc \o e2.tc, rt |-> e1.rt \/ e2.rt]
RequiresTranspile == [tc |-> <<>>, rt |-> TRUE]

\* file_text[..k].trim_end().len()
RECURSIVE TrimEndLen(_, _)
TrimEndLen(text, k) ==
  IF k = 0 \/ ~IsWs(text[k]) THEN k ELSE TrimEndLen(text, k - 1)

\* file_end.len() - file_end.trim_start().len() for file_end = file_text[k..]
RECURSIVE LeadingWs(_, _)
LeadingWs(text, k) ==
  IF k >= Len(text) \/ ~IsWs(text[k + 1]) THEN 0 ELSE 1 + LeadingWs(text, k + 1)

\* "const __pack_default__ = "
PackDefaultDecl == <<"const __pack_default__ =", " ">>

\* remove_range / ModuleData::add_remove_range
RemoveRange(lo, hi) == Push(TextChange(lo, hi, <<>>))

\* remove_range_with_previous_whitespace
RemoveRangeWithPreviousWhitespace(cx, lo, hi) ==
  RemoveRange(TrimEndLen(cx.text, lo), hi)

\* remove_range_with_next_whitespace
RemoveRangeWithNextWhitespace(cx, lo, hi) ==
  RemoveRange(lo, hi + LeadingWs(cx.text, hi))

\* tokens_fast of a range
TokensIn(cx, lo, hi) ==
  SelectSeq(cx.toks, LAMBDA t : lo <= t.lo /\ t.hi <= hi)

\* next_token_fast of something ending at hi: <<token>> or <<>>
NextToken(cx, hi) ==
  LET after == SelectSeq(cx.toks, LAMBDA t : t.lo >= hi)
  IN IF after = <<>> THEN <<>> ELSE <<after[1]>>

\* previous_token_fast of something starting at lo
PreviousToken(cx, lo) ==
  LET before == SelectSeq(cx.toks, LAMBDA t : t.hi <= lo)
  IN before[Len(before)]

\* the first token of a range that is the keyword or has the text `text`
FirstToken(cx, lo, hi, text) ==
  SelectSeq(TokensIn(cx, lo, hi), LAMBDA t : t.text = text)[1]

\* remove_token
RemoveToken(cx, t) == RemoveRangeWithNextWhitespace(cx, t.lo, t.hi)

\* remove_first_token
RemoveFirstToken(cx, lo, hi, text) == RemoveToken(cx, FirstToken(cx, lo, hi, text))

RemoveFirstTokenIf(cond, cx, lo, hi, text) ==
  IF cond THEN RemoveFirstToken(cx, lo, hi, text) ELSE NoEffect

\* replace_ident_text
ReplaceIdentTextNoShorthand(ident, off, parent_kind, new_text) ==
  Push(TextChange(off, off + 1, <<new_text>>))

ReplaceIdentText(ident, off, parent_kind, new_text) ==
  IF parent_kind = "ObjectLit"
    THEN Push(TextChange(off, off + 1, <<ident.sym \o ": " \o new_text>>))
    ELSE Push(TextChange(off, off + 1, <<new_text>>))

AccessibilityOf(node) == node.flags \cap {"private", "protected", "public"}

\* the modifier tokens a ClassProp, PrivateProp or TsParamProp loses
RemoveModifiers(cx, node, lo, hi, names) ==
  LET acc == AccessibilityOf(node)
      RECURSIVE Go(_)
      Go(j) ==
        IF j > Len(names) THEN NoEffect
        ELSE Then(RemoveFirstTokenIf(names[j][1] \in node.flags, cx, lo, hi,
                                     names[j][2]),
                  Go(j + 1))
  IN Then(IF acc = {} THEN NoEffect
          ELSE RemoveFirstToken(cx, lo, hi, CHOOSE a \in acc : TRUE),
          Go(1))

ClassPropModifiers ==
  <<<<"readonly", "readonly">>, <<"override", "override">>,
    <<"abstract", "abstract">>, <<"definite", "!">>, <<"optional", "?">>>>

PrivatePropModifiers ==
  <<<<"readonly", "readonly">>, <<"override", "override">>,
    <<"definite", "!">>, <<"optional", "?">>>>

TsParamPropModifiers ==
  <<<<"readonly", "readonly">>, <<"override", "override">>>>

\* function.body.is_none()
HasNoBody(fn) ==
  LET children == Children(fn)
  IN \E i \in 1..Len(children) :
       children[i].kind = "Function" /\ "nobody" \in children[i].flags

\* the arm of visit that only visits the children (lines 1152-1248)
VisitChildrenKinds ==
  {"ArrayLit", "ArrayPat", "ArrowExpr", "AssignExpr", "AssignPat",
   "AssignPatProp", "AssignProp", "AutoAccessor", "AwaitExpr", "BigInt",
   "BinExpr", "BindingIdent", "BlockStmt", "Bool", "BreakStmt", "CallExpr",
   "CatchClause", "ClassDecl", "ClassExpr", "ComputedPropName", "CondExpr",
   "ContinueStmt", "DebuggerStmt", "Decorator", "DoWhileStmt", "EmptyStmt",
   "ExprOrSpread", "ExprStmt", "FnExpr", "ForInStmt", "ForOfStmt", "ForStmt",
   "Function", "GetterProp", "IfStmt", "Import", "ImportDefaultSpecifier",
   "ImportNamedSpecifier", "ImportStarAsSpecifier", "Invalid",
   "KeyValuePatProp", "KeyValueProp", "LabeledStmt", "MemberExpr",
   "MetaPropExpr", "MethodProp", "Module", "NewExpr", "Null", "Number",
   "ObjectLit", "ObjectPat", "OptCall", "OptChainExpr", "ParenExpr",
   "PrivateMethod", "PrivateName", "Regex", "RestPat", "ReturnStmt", "Script",
   "SeqExpr", "SetterProp", "SpreadElement", "StaticBlock", "Str", "Super",
   "SuperPropExpr", "SwitchCase", "SwitchStmt", "TaggedTpl", "ThisExpr",
   "ThrowStmt", "Tpl", "TplElement", "TryStmt", "UnaryExpr", "UpdateExpr",
   "VarDeclarator", "WhileStmt", "WithStmt", "YieldExpr", "TsEnumMember"}

\* the arm of visit that removes the node (lines 1053-1060)
RemovedDeclKinds ==
  {"ExportAll", "ExportDefaultSpecifier", "ExportNamedSpecifier",
   "ExportNamespaceSpecifier", "ImportDecl", "NamedExport"}

\* the arms that remove the end of an expression and visit the expression
TsSuffixKinds == {"TsAsExpr", "TsNonNullExpr", "TsSatisfiesExpr"}

\* the arms that set requires_transpile and visit the children
TranspiledKinds ==
  {"TsEnumDecl", "TsNamespaceDecl", "TsModuleBlock", "TsModuleDecl"}

\* the arm that removes a type-only node (lines 1364-1411)
TsRemovedKinds ==
  {"TsArrayType", "TsCallSignatureDecl", "TsConditionalType",
   "TsConstructSignatureDecl", "TsConstructorType", "TsExportAssignment",
   "TsExprWithTypeArgs", "TsExternalModuleRef", "TsFnType",
   "TsGetterSignature", "TsImportEqualsDecl", "TsImportType",
   "TsIndexSignature", "TsIndexedAccessType", "TsInferType",
   "TsInterfaceBody", "TsIntersectionType", "TsKeywordType", "TsLitType",
   "TsMappedType", "TsMethodSignature", "TsNamespaceExportDecl",
   "TsOptionalType", "TsParenthesizedType", "TsPropertySignature",
   "TsQualifiedName", "TsRestType", "TsSetterSignature", "TsThisType",
   "TsTplLitType", "TsTupleElement", "TsTupleType", "TsTypeAnn", "TsTypeLit",
   "TsTypeOperator", "TsTypeParam", "TsTypeParamDecl",
   "TsTypeParamInstantiation", "TsTypePredicate", "TsTypeQuery", "TsTypeRef",
   "TsTypeAliasDecl", "TsInterfaceDecl", "TsUnionType"}

RECURSIVE Visit(_, _, _, _)

\* visit_children, and the same over the children that `keep` accepts
VisitChildrenWhere(cx, node, off, keep(_, _)) ==
  LET cs == ChildrenAt(node, off)
      RECURSIVE Go(_)
      Go(j) ==
        IF j > Len(cs) THEN NoEffect
        ELSE Then(IF keep(cs[j][1], cs[j][2])
                    THEN Visit(cx, cs[j][1], cs[j][2], node.kind)
                    ELSE NoEffect,
                  Go(j + 1))
  IN Go(1)

VisitChildren(cx, node, off) ==
  VisitChildrenWhere(cx, node, off, LAMBDA c, o : TRUE)

\* Node::ExportDefaultExpr (lines 949-967)
VisitExportDefaultExpr(cx, node, off) ==
  IF cx.is_root THEN NoEffect
  ELSE LET default_keyword == FirstToken(cx, off, off + Width(node), "default")
       IN Push(TextChange(off, NextToken(cx, default_keyword.hi)[1].lo,
                          PackDefaultDecl))

\* Node::ExportDefaultDecl (lines 968-1014)
VisitExportDefaultDecl(cx, node, off) ==
  LET c == ChildrenAt(node, off)[1]
      decl == c[1]
      export_keyword == FirstToken(cx, off, off + Width(node), "export")
      default_keyword == NextToken(cx, export_keyword.hi)[1]
  IN IF decl.kind = "TsInterfaceDecl" THEN RemoveRange(off, off + Width(node))
     ELSE Then(
       IF cx.is_root THEN NoEffect
       ELSE Then(
         RemoveRange(export_keyword.lo,
                     NextToken(cx, default_keyword.hi)[1].lo),
         IF Idents(decl) = <<>>
           THEN Push(TextChange(off, off, PackDefaultDecl))
           ELSE NoEffect),
       Visit(cx, decl, c[2], node.kind))

\* Node::ExportDecl (lines 1015-1052)
VisitExportDecl(cx, node, off) ==
  LET decl == Children(node)[1]
      export_keyword == FirstToken(cx, off, off + Width(node), "export")
  IN IF decl.kind \in {"TsInterfaceDecl", "TsTypeAliasDecl"}
       THEN RemoveRange(off, off + Width(node))
     ELSE IF decl.kind = "FnDecl" /\ HasNoBody(decl)
       THEN RemoveRange(off, off + Width(node))
     ELSE Then(
       IF cx.is_root THEN NoEffect
       ELSE RemoveRange(export_keyword.lo,
                        NextToken(cx, export_keyword.hi)[1].lo),
       VisitChildren(cx, node, off))

\* Node::Class (lines 1061-1087)
VisitClass(cx, node, off) ==
  LET cs == ChildrenAt(node, off)
      impl == SelectSeq(cs, LAMBDA c : c[1].kind = "TsExprWithTypeArgs")
      last == impl[Len(impl)]
      lo == PreviousToken(cx, impl[1][2]).lo
      hi == NextToken(cx, last[2] + Width(last[1]))[1].lo
  IN IF impl = <<>> THEN VisitChildren(cx, node, off)
     ELSE Then(RemoveRange(lo, hi),
               VisitChildrenWhere(cx, node, off,
                 LAMBDA c, o : ~(lo <= o /\ o + Width(c) <= hi)))

\* Node::Param (lines 1249-1284)
VisitParam(cx, node, off) ==
  LET hi == off + Width(node)
      pat == ChildrenAt(node, off)[1]
      is_binding == pat[1].kind = "BindingIdent"
      ident == Idents(pat[1])[1]
      next == NextToken(cx, hi)
      after_ident == NextToken(cx, pat[2] + 1)
  IN IF is_binding /\ ident.sym = "this"
       THEN Then(RemoveRangeWithPreviousWhitespace(cx, off, hi),
                 IF next # <<>> /\ next[1].text = ","
                   THEN RemoveRangeWithPreviousWhitespace(cx, next[1].lo,
                                                          next[1].hi)
                   ELSE NoEffect)
       ELSE Then(VisitChildren(cx, node, off),
                 IF is_binding /\ "optional" \in ident.flags
                      /\ after_ident[1].text = "?"
                   THEN RemoveToken(cx, after_ident[1])
                   ELSE NoEffect)

\* TextChangeCollector::visit (lines 941-1413)
Visit(cx, node, off, parent_kind) ==
  LET k == node.kind
      hi == off + Width(node)
      expr == ChildrenAt(node, off)[1]
  IN CASE k = "Ident" ->
            IF ToId(node) \in DOMAIN cx.replace_ids
              THEN ReplaceIdentText(node, off, parent_kind,
                                    cx.replace_ids[ToId(node)])
              ELSE NoEffect
       [] k = "ExportDefaultExpr" -> VisitExportDefaultExpr(cx, node, off)
       [] k = "ExportDefaultDecl" -> VisitExportDefaultDecl(cx, node, off)
       [] k = "ExportDecl" -> VisitExportDecl(cx, node, off)
       [] k \in RemovedDeclKinds -> RemoveRange(off, hi)
       [] k = "Class" -> VisitClass(cx, node, off)
       [] k = "ClassProp" ->
            IF "declare" \in node.flags
              THEN RemoveRangeWithPreviousWhitespace(cx, off, hi)
              ELSE Then(RemoveModifiers(cx, node, off, hi, ClassPropModifiers),
                        VisitChildren(cx, node, off))
       [] k = "PrivateProp" ->
            Then(RemoveModifiers(cx, node, off, hi, PrivatePropModifiers),
                 VisitChildren(cx, node, off))
       [] k = "Constructor" ->
            Then(VisitChildren(cx, node, off),
                 IF ChildrenOfKind(node, {"TsParamProp"}) # <<>>
                   THEN RequiresTranspile ELSE NoEffect)
       [] k = "VarDecl" ->
            IF "declare" \in node.flags
              THEN RemoveRangeWithPreviousWhitespace(cx, off, hi)
              ELSE VisitChildren(cx, node, off)
       [] k \in VisitChildrenKinds -> VisitChildren(cx, node, off)
       [] k = "Param" -> VisitParam(cx, node, off)
       [] k \in {"ClassMethod", "FnDecl"} ->
            IF HasNoBody(node)
              THEN RemoveRangeWithPreviousWhitespace(cx, off, hi)
              ELSE VisitChildren(cx, node, off)
       [] k \in TranspiledKinds ->
            Then(RequiresTranspile, VisitChildren(cx, node, off))
       [] k \in TsSuffixKinds ->
            Then(RemoveRange(expr[2] + Width(expr[1]), hi),
                 Visit(cx, expr[1], expr[2], k))
       [] k = "TsConstAssertion" ->
            Then(RemoveRangeWithPreviousWhitespace(
                   cx, expr[2] + Width(expr[1]), hi),
                 Visit(cx, expr[1], expr[2], k))
       [] k = "TsTypeAssertion" ->
            Then(RemoveRangeWithNextWhitespace(cx, off, expr[2]),
                 Visit(cx, expr[1], expr[2], k))
       [] k = "TsParamProp" ->
            Then(RemoveModifiers(cx, node, off, hi, TsParamPropModifiers),
                 VisitChildren(cx, node, off))
       [] k = "TsInstantiation" ->
            Then(RemoveRangeWithNextWhitespace(
                   cx, expr[2] + Width(expr[1]), hi),
                 Visit(cx, expr[1], expr[2], k))
       [] k \in TsRemovedKinds -> RemoveRange(off, hi)

(***************************************************************************)
(* analyze_esm_module as a whole.  A module of the graph is a record       *)
(* [kind, source]: kind is "Esm", "Json" or "Npm", the source of an Esm    *)
(* module is its sequence of items and the source of a Json module is its  *)
(* text, a sequence of lexemes.                                            *)
(***************************************************************************)
EsmModule(source) == [kind |-> "Esm", source |-> source]
JsonModule(source) == [kind |-> "Json", source |-> source]
NpmModule == [kind |-> "Npm", source |-> <<>>]

NoReplaceIds == [id \in {} |-> ""]

\* analyze_esm_module (lines 454-865): [ok, md], ok = FALSE when it panics
\* an analysis in one loop over module.body, in which an export
\* declaration sees the imports above it only
AnalyzeEsmModuleOnePass(g, md, s) ==
  LET module == ParseModule(g[s].source)
      body == Children(module)
      RECURSIVE Go(_, _)
      Go(i, acc) ==
        IF i > Len(body) \/ ~acc.ok THEN acc
        ELSE Go(i + 1,
                AnalyzeExports(g, <<body[i]>>, 1,
                               AnalyzeImports(g, <<body[i]>>, 1, acc),
                               s, IsRoot(s)))
      a2 == Go(1, [ok |-> TRUE, md |-> GetMut(md, s),
                   replace_ids |-> NoReplaceIds, found_tla |-> FALSE])
      effect == VisitChildren([text |-> TextOf(module),
                               toks |-> TokensOf(module),
                               is_root |-> IsRoot(s),
                               replace_ids |-> a2.replace_ids],
                              module, 0)
  IN IF ~a2.ok THEN [ok |-> FALSE, md |-> a2.md]
     ELSE [ok |-> TRUE,
           md |-> [a2.md EXCEPT
                     ![s].has_tla = a2.found_tla,
                     ![s].text_changes = @ \o effect.tc,
                     ![s].requires_transpile = @ \/ effect.rt]]

AnalyzeEsmModule(g, md, s) ==
  With(ParseModule(g[s].source), LAMBDA module :
  With(Children(module), LAMBDA body :
  With(AnalyzeImports(g, body, 1,
                      [ok |-> TRUE, md |-> md, replace_ids |-> NoReplaceIds,
                       found_tla |-> FALSE]),
       LAMBDA a1 :
    IF ~a1.ok THEN [ok |-> FALSE, md |-> a1.md]
    ELSE
  With([GetMut(a1.md, s) EXCEPT ![s].has_tla = a1.found_tla], LAMBDA md1 :
  With(AnalyzeExports(g, body, 1, [a1 EXCEPT !.md = md1], s, IsRoot(s)),
       LAMBDA a2 :
    IF ~a2.ok THEN [ok |-> FALSE, md |-> a2.md]
    ELSE
  With(VisitChildren([text |-> TextOf(module), toks |-> TokensOf(module),
                      is_root |-> IsRoot(s), replace_ids |-> a1.replace_ids],
                     module, 0),
       LAMBDA effect :
    [ok |-> TRUE,
     md |-> [GetMut(a2.md, s) EXCEPT
               ![s].text_changes = @ \o effect.tc,
               ![s].requires_transpile = @ \/ effect.rt]]))))))

(***************************************************************************)
(* Text: apply_text_changes, trim, and the bytes of a sequence of pieces.  *)
(***************************************************************************)
\* changes.sort_by(start, then end): a stable insertion sort
ChangeLeq(a, b) == a.lo < b.lo \/ (a.lo = b.lo /\ a.hi <= b.hi)

RECURSIVE InsertChange(_, _)
InsertChange(sorted, c) ==
  IF sorted = <<>> THEN <<c>>
  ELSE IF ChangeLeq(sorted[Len(sorted)], c) THEN Append(sorted, c)
  ELSE Append(InsertChange(SubSeq(sorted, 1, Len(sorted) - 1), c),
              sorted[Len(sorted)])

\* the changes as they were pushed
UnsortedChanges(changes) == changes

RECURSIVE SortChanges(_)
SortChanges(changes) ==
  IF changes = <<>> THEN <<>>
  ELSE InsertChange(SortChanges(SubSeq(changes, 1, Len(changes) - 1)),
                    changes[Len(changes)])

Min(a, b) == IF a <= b THEN a ELSE b

\* deno_ast::apply_text_changes: [ok, text], ok = FALSE when it panics
\* because a change starts before the end of the one before it
ApplyTextChanges(source, changes) ==
  LET sorted == SortChanges(changes)
      RECURSIVE Go(_, _, _)
      Go(i, last_index, out) ==
        IF i > Len(sorted)
          THEN [ok |-> TRUE,
                text |-> out \o SubSeq(source, last_index + 1, Len(source))]
        ELSE IF sorted[i].lo > sorted[i].hi \/ sorted[i].lo < last_index
          THEN [ok |-> FALSE, text |-> out]
        ELSE Go(i + 1, sorted[i].hi,
                out
                \o (IF sorted[i].lo > last_index /\ last_index < Len(source)
                      THEN SubSeq(source, last_index + 1,
                                  Min(Len(source), sorted[i].lo))
                      ELSE <<>>)
                \o sorted[i].new_text)
  IN Go(1, 0, <<>>)

NoTrim(text) == text

\* str::trim
RECURSIVE TrimStart(_)
TrimStart(text) ==
  IF text # <<>> /\ IsWs(text[1]) THEN TrimStart(Tail(text)) ELSE text

RECURSIVE TrimEnd(_)
TrimEnd(text) ==
  IF text # <<>> /\ IsWs(text[Len(text)])
    THEN TrimEnd(SubSeq(text, 1, Len(text) - 1)) ELSE text

Trim(text) == TrimEnd(TrimStart(text))

\* emit_script: the transpiler prints the statements of the text again, one
\* space or line break between two of them, and ends the text with a line
\* break
EmitScript(text) ==
  LET t == Trim(text)
      kept == {i \in 1..Len(t) : ~(IsWs(t[i]) /\ i > 1 /\ IsWs(t[i - 1]))}
      RECURSIVE Go(_)
      Go(i) == IF i > Len(t) THEN <<>>
               ELSE (IF i \in kept THEN <<t[i]>> ELSE <<>>) \o Go(i + 1)
  IN Go(1) \o <<"\n">>

(***************************************************************************)
(* get_export_names.                                                       *)
(***************************************************************************)
\* the names of the model in the byte order of their text (String's Ord)
SortedNames ==
  <<"A", "Logger", "T", "X", "__pack_default__", "a", "b", "c", "d",
    "default", "k", "logger", "ns", "r", "rest", "v", "x", "y">>

NameRank(name) == CHOOSE i \in 1..Len(SortedNames) : SortedNames[i] = name

\* HashSet::into_iter: the elements in the order this run's hasher gives
RECURSIVE ByRank(_)
ByRank(names) ==
  IF names = {} THEN <<>>
  ELSE LET n == CHOOSE n \in names :
                  \A m \in names : NameRank(n) <= NameRank(m)
       IN <<n>> \o ByRank(names \ {n})

Reverse(seq) == [i \in 1..Len(seq) |-> seq[Len(seq) + 1 - i]]

HashIter(names, seed) ==
  LET base == IF seed % 2 = 1 THEN Reverse(ByRank(names)) ELSE ByRank(names)
      n == Len(base)
      k == IF n = 0 THEN 0 ELSE (seed \div 2) % n
  IN SubSeq(base, k + 1, n) \o SubSeq(base, 1, k)

NoSort(names) == names

\* sort_unstable of a Vec<String>
RECURSIVE InsertName(_, _)
InsertName(sorted, name) ==
  IF sorted = <<>> THEN <<name>>
  ELSE IF NameRank(sorted[Len(sorted)]) <= NameRank(name)
    THEN Append(sorted, name)
  ELSE Append(InsertName(SubSeq(sorted, 1, Len(sorted) - 1), name),
              sorted[Len(sorted)])

RECURSIVE SortUnstable(_)
SortUnstable(names) ==
  IF names = <<>> THEN <<>>
  ELSE \* the sorted prefix is a value before the last name is inserted
       CHOOSE sorted \in
         {InsertName(prefix, names[Len(names)]) :
            prefix \in {SortUnstable(SubSeq(names, 1, Len(names) - 1))}} : TRUE

ReExportedNameNamedOnly(re_export) ==
  IF re_export.name.tag = "Named"
    THEN {ExportNameOf([local_name |-> re_export.name.local_name,
                        export_name |-> re_export.name.export_name])}
    ELSE {}

\* the name a re-export adds to the result, if any
ReExportedName(re_export) ==
  CASE re_export.name.tag = "Named" ->
         {ExportNameOf([local_name |-> re_export.name.local_name,
                        export_name |-> re_export.name.export_name])}
    [] re_export.name.tag = "Namespace" -> {re_export.name.local_name}
    [] re_export.name.tag = "All" -> {}

\* get_export_names::inner: st is [seen, result]
RECURSIVE Inner(_, _, _)
Inner(md, s, st) ==
  IF s \in st.seen THEN st
  ELSE
    LET st1 == [st EXCEPT !.seen = @ \cup {s}]
    IN IF s \notin DOMAIN md THEN st1
       ELSE
         LET data == md[s]
             st2 == [st1 EXCEPT !.result =
                       @ \cup {ExportNameOf(data.exports[i]) :
                                 i \in 1..Len(data.exports)}]
             RECURSIVE Go(_, _)
             Go(j, t) ==
               IF j > Len(data.re_exports) THEN t
               ELSE Go(j + 1,
                       IF data.re_exports[j].name.tag = "All"
                         THEN Inner(md, data.re_exports[j].specifier, t)
                         ELSE [t EXCEPT !.result =
                                 @ \cup ReExportedName(data.re_exports[j])])
         IN Go(1, st2)

\* ModuleDataCollection::get_export_names
GetExportNames(md, s, seed) ==
  SortUnstable(HashIter(Inner(md, s, [seen |-> {}, result |-> {}]).result,
                        seed))

(***************************************************************************)
(* graph.walk: the iterator over the modules of the graph.                 *)
(***************************************************************************)
SourcedKinds == {"ImportDecl", "NamedExport", "ExportAll"}

\* module.dependencies: the modules an Esm module names, in source order
Dependencies(g, s) ==
  With(IF g[s].kind = "Esm" THEN Children(ParseModule(g[s].source)) ELSE <<>>,
       LAMBDA body :
    LET RECURSIVE Go(_, _)
        Go(i, deps) ==
          IF i > Len(body) THEN deps
          ELSE With(IF body[i].kind \in SourcedKinds /\ body[i].sym # ""
                      THEN ResolveDependency(g, body[i].sym) ELSE <<>>,
                    LAMBDA dep :
                 Go(i + 1,
                    IF dep # <<>> /\ \A j \in 1..Len(deps) : deps[j] # dep[1]
                      THEN Append(deps, dep[1]) ELSE deps))
    IN Go(1, <<>>))

\* ModuleGraph::walk
Walk(from) ==
  [seen |-> {from[i] : i \in 1..Len(from)}, visiting |-> from,
   previous |-> <<>>]

\* the first part of ModuleEntryIterator::next: the dependencies of the
\* previous module that were not seen go to the front of the queue
RECURSIVE PushDependencies(_, _, _)
PushDependencies(w, deps, i) ==
  IF i = 0 THEN w
  ELSE PushDependencies(
         IF deps[i] \in w.seen THEN w
         ELSE [w EXCEPT !.seen = @ \cup {deps[i]},
                        !.visiting = <<deps[i]>> \o @],
         deps, i - 1)

\* ModuleEntryIterator::next: [item, walker], item = <<>> at the end
WalkerNext(g, w) ==
  With(IF w.previous = <<>> THEN w
       ELSE With(Dependencies(g, w.previous[1]),
                 LAMBDA deps : PushDependencies(w, deps, Len(deps))),
       LAMBDA w1 :
    IF w1.visiting = <<>>
      THEN [item |-> <<>>, walker |-> [w1 EXCEPT !.previous = <<>>]]
      ELSE [item |-> <<w1.visiting[1]>>,
            walker |-> [w1 EXCEPT !.visiting = Tail(@),
                                  !.previous = <<w1.visiting[1]>>]])

\* skip_previous_dependencies without effect
KeepPreviousDependencies(w) == w

\* ModuleEntryIterator::skip_previous_dependencies
SkipPreviousDependencies(w) == [w EXCEPT !.previous = <<>>]

(***************************************************************************)
(* pack.                                                                   *)
(***************************************************************************)
IsFile(s) == s.scheme = "file"

\* get_folder: the text of the specifier up to its last "/"
GetFolder(s) == s.folder

\* str::starts_with
StartsWith(text, prefix) ==
  Len(prefix) <= Len(text) /\ SubSeq(text, 1, Len(prefix)) = prefix

\* get_root_dir (lines 1424-1445): None, or Some(the pieces of the prefix)
GetRootDir(specifiers) ==
  LET RECURSIVE Go(_, _)
      Go(i, root) ==
        IF i > Len(specifiers) THEN root
        ELSE Go(i + 1,
                IF ~IsFile(specifiers[i]) THEN root
                ELSE IF root = None
                        \/ StartsWith(root[1], GetFolder(specifiers[i]))
                  THEN Some(GetFolder(specifiers[i]))
                  ELSE root)
      root == Go(1, None)
  IN IF root = Some(FileRoot) THEN Some(FileRoot \o <<"/">>) ELSE root

\* the displayed_specifier of lines 293-303 and 340-350
DisplayedSpecifier(root_dir, s) ==
  IF root_dir # None /\ IsFile(s) /\ StartsWith(Pieces(s), root_dir[1])
    THEN Join(SubSeq(Pieces(s), Len(root_dir[1]) + 1, Len(Pieces(s))))
    ELSE AsStr(s)

\* String::is_empty of the text the chunks spell
IsEmpty(chunks) == \A i \in 1..Len(chunks) : chunks[i] = ""

\* the iteration of lines 239-261 with the other kinds of module taken as
\* Json modules are
WalkModuleAnyKind(g, remote, st, s) ==
  With(IF ~remote /\ ~IsFile(s)
         THEN SkipPreviousDependencies(st.walker) ELSE st.walker,
       LAMBDA w :
    With([st EXCEPT !.walker = w, !.ordered_specifiers = Append(@, s)],
         LAMBDA pushed :
      IF g[s].kind = "Esm" /\ (remote \/ IsFile(s))
        THEN IF s \in st.parser
               THEN [pushed EXCEPT !.ok = FALSE, !.err = TRUE]
               ELSE With(AnalyzeEsmModule(g, st.md, s),
                         LAMBDA analyzed :
                      [pushed EXCEPT !.ok = analyzed.ok, !.md = analyzed.md])
        ELSE pushed))

\* one iteration of the while loop of lines 239-261 on the state st of
\* pack, [ok, err, parser, walker, ordered_specifiers, md, final_text];
\* ok = FALSE when the iteration leaves pack: with err = TRUE by the `?` of
\* line 248 on the Err of parse_module (lines 456-460), which comes first in
\* analyze_esm_module, and with err = FALSE by a panic
WalkModule(g, remote, st, s) ==
  With(IF ~remote /\ ~IsFile(s)
         THEN SkipPreviousDependencies(st.walker) ELSE st.walker,
       LAMBDA w :
    With([st EXCEPT !.walker = w, !.ordered_specifiers = Append(@, s)],
         LAMBDA pushed :
      CASE g[s].kind = "Esm" ->
             IF remote \/ IsFile(s)
               THEN IF s \in st.parser
                      THEN [pushed EXCEPT !.ok = FALSE, !.err = TRUE]
                      ELSE With(AnalyzeEsmModule(g, st.md, s),
                                LAMBDA analyzed :
                             [pushed EXCEPT !.ok = analyzed.ok,
                                            !.md = analyzed.md])
               ELSE pushed
        [] g[s].kind = "Json" -> pushed
        [] OTHER -> [st EXCEPT !.ok = FALSE, !.walker = w]))

\* the `name: undefined` lines of a namespace object
RECURSIVE PlaceholderLines(_)
PlaceholderLines(names) ==
  IF names = <<>> THEN <<>>
  ELSE <<"  " \o names[1] \o ": undefined,\n">> \o PlaceholderLines(Tail(names))

\* one iteration of the for loop of lines 265-312: [md, final_text]
DeclareModule(g, md, chunks, root_dir, s, seed) ==
  LET md1 == GetMut(md, s)
      code == ToCodeString(md1[s].id)
      export_names == GetExportNames(md, s, seed)
  IN IF ~IsFile(s)
       THEN [md |-> md1,
             final_text |-> Append(chunks,
               "import * as " \o code \o " from \"" \o AsStr(s) \o "\";\n")]
     ELSE IF g[s].kind = "Esm"
       THEN IF export_names = <<>> \/ IsRoot(s)
              THEN [md |-> md1, final_text |-> chunks]
              ELSE [md |-> md1,
                    final_text |->
                      chunks \o <<"const " \o code \o " = {\n">>
                      \o PlaceholderLines(export_names) \o <<"};\n">>]
     ELSE IF g[s].kind = "Json"
       THEN [md |-> md1,
             final_text |->
               chunks
               \o (IF IsEmpty(chunks) THEN <<>> ELSE <<"\n">>)
               \o <<"// " \o DisplayedSpecifier(root_dir, s) \o "\nconst "
                    \o code \o " = {\n  default: "
                    \o Join(Trim(g[s].source)) \o "\n};\n">>]
     ELSE [md |-> md, final_text |-> chunks]

DefineProperty(code, name, target) ==
  "Object.defineProperty(" \o code \o ", \"" \o name \o "\", { get: () => "
  \o target \o " });\n"

\* lines 368-376: the getters of the exports
ExportLines(code, exports) ==
  [i \in 1..Len(exports) |->
     DefineProperty(code, ExportNameOf(exports[i]), exports[i].local_name)]

\* lines 377-403: the getters of the Named and Namespace re-exports
RECURSIVE ReExportLines(_, _)
ReExportLines(code, re_exports) ==
  IF re_exports = <<>> THEN <<>>
  ELSE LET r == re_exports[1]
           dep == ToCodeString(r.module_id)
       IN (CASE r.name.tag = "Named" ->
                  <<DefineProperty(code, CHOOSE n \in ReExportedName(r) : TRUE,
                                   dep \o "." \o r.name.local_name)>>
             [] r.name.tag = "Namespace" ->
                  <<DefineProperty(code, r.name.local_name,
                                   dep \o "." \o r.name.local_name)>>
             [] r.name.tag = "All" -> <<>>)
          \o ReExportLines(code, Tail(re_exports))

\* the export_names set of lines 365-403
DefinedNames(data) ==
  {ExportNameOf(data.exports[i]) : i \in 1..Len(data.exports)}
  \cup UNION {ReExportedName(data.re_exports[i]) :
                i \in 1..Len(data.re_exports)}

\* an emission without the getters of the `export *` re-exports
NoExportAllLines(md, code, re_exports, export_names, seed) == <<>>

\* lines 404-420: the getters of the `export *` re-exports
RECURSIVE ExportAllLines(_, _, _, _, _)
ExportAllLines(md, code, re_exports, export_names, seed) ==
  IF re_exports = <<>> THEN <<>>
  ELSE LET r == re_exports[1]
           names == SelectSeq(GetExportNames(md, r.specifier, seed),
                              LAMBDA n : n \notin export_names)
       IN (IF r.name.tag = "All"
             THEN [i \in 1..Len(names) |->
                     DefineProperty(code, names[i],
                                    ToCodeString(r.module_id) \o "."
                                    \o names[i])]
             ELSE <<>>)
          \o ExportAllLines(md, code, Tail(re_exports), export_names, seed)

\* one iteration of the for loop of lines 314-425: [ok, final_text], ok =
\* FALSE when apply_text_changes panics
EmitModule(g, md, chunks, root_dir, s, remote, seed) ==
  IF (~remote /\ ~IsFile(s)) \/ g[s].kind # "Esm"
    THEN [ok |-> TRUE, final_text |-> chunks]
  ELSE
  With(md[s], LAMBDA data :
  With(ApplyTextChanges(TextOf(ParseModule(g[s].source)), data.text_changes),
       LAMBDA applied :
    IF ~applied.ok THEN [ok |-> FALSE, final_text |-> chunks]
    ELSE
  With(Join(Trim(IF data.requires_transpile THEN EmitScript(applied.text)
                 ELSE applied.text)),
       LAMBDA module_text :
  With(ToCodeString(data.id), LAMBDA code :
    IF module_text # "" \/ data.exports # <<>> \/ data.re_exports # <<>>
      THEN [ok |-> TRUE,
            final_text |->
              chunks
              \o (IF IsEmpty(chunks) THEN <<>> ELSE <<"\n">>)
              \o <<"// " \o DisplayedSpecifier(root_dir, s) \o "\n">>
              \o (IF IsRoot(s) THEN <<module_text, "\n">>
                  ELSE <<IF data.has_tla THEN "await (async () => {\n"
                         ELSE "(() => {\n">>
                       \o (IF module_text # "" THEN <<module_text \o "\n">>
                           ELSE <<>>)
                       \o ExportLines(code, data.exports)
                       \o ReExportLines(code, data.re_exports)
                       \o ExportAllLines(md, code, data.re_exports,
                                         DefinedNames(data), seed)
                       \o <<"})();\n">>)]
      ELSE [ok |-> TRUE, final_text |-> chunks]))))

\* the while loop of lines 239-261, run to its end
RECURSIVE WalkAll(_, _, _)
WalkAll(g, remote, st) ==
  With(WalkerNext(g, st.walker), LAMBDA r :
    IF r.item = <<>> THEN [st EXCEPT !.walker = r.walker]
    ELSE With(WalkModule(g, remote, [st EXCEPT !.walker = r.walker],
                         r.item[1]),
              LAMBDA st1 : IF ~st1.ok THEN st1 ELSE WalkAll(g, remote, st1)))

\* the for loop of lines 265-312 from position i on
RECURSIVE DeclareAll(_, _, _, _, _)
DeclareAll(g, st, root_dir, i, seed) ==
  IF i > Len(st.ordered_specifiers) THEN st
  ELSE With(DeclareModule(g, st.md, st.final_text, root_dir,
                          st.ordered_specifiers[i], seed),
            LAMBDA r :
         DeclareAll(g, [st EXCEPT !.md = r.md, !.final_text = r.final_text],
                    root_dir, i + 1, seed))

\* the for loop of lines 314-425 from position i down
RECURSIVE EmitAll(_, _, _, _, _, _)
EmitAll(g, remote, st, root_dir, i, seed) ==
  IF i = 0 THEN st
  ELSE With(EmitModule(g, st.md, st.final_text, root_dir,
                       st.ordered_specifiers[i], remote, seed),
            LAMBDA r :
         IF ~r.ok THEN [st EXCEPT !.ok = FALSE]
         ELSE EmitAll(g, remote, [st EXCEPT !.final_text = r.final_text],
                      root_dir, i - 1, seed))

\* pack (lines 207-428) on a graph of the one root mod.ts, with a parser that
\* parses every module, as a function of its inputs and of the hasher of the
\* run: [ok, text], ok = FALSE when the run panics
PackText(g, remote, seed) ==
  With(WalkAll(g, remote,
               [ok |-> TRUE, err |-> FALSE, parser |-> {},
                walker |-> Walk(<<RootSpecifier>>),
                ordered_specifiers |-> <<>>, md |-> NoReplaceIds,
                final_text |-> <<>>]),
       LAMBDA walked :
    IF ~walked.ok THEN [ok |-> FALSE, text |-> ""]
    ELSE With(GetRootDir(walked.ordered_specifiers), LAMBDA root_dir :
         With(EmitAll(g, remote, DeclareAll(g, walked, root_dir, 1, seed),
                      root_dir, Len(walked.ordered_specifiers), seed),
              LAMBDA emitted :
           [ok |-> emitted.ok, text |-> Join(emitted.final_text)])))

(***************************************************************************)
(* The programs pack is run on.                                            *)
(***************************************************************************)
\* the name a dependency exports
DepName(s) == CASE s = SpecA -> "a" [] s = SpecB -> "b" [] s = SpecC -> "c"

\* the sequences of 1..n distinct elements of a set
RECURSIVE Arrangements(_, _)
Arrangements(set, n) ==
  IF n = 0 THEN {}
  ELSE {<<x>> : x \in set}
       \cup {<<x>> \o rest : x \in set, rest \in Arrangements(set, n - 1)}

DistinctArrangements(set, n) ==
  {seq \in Arrangements(set, n) :
     \A i, j \in 1..Len(seq) : i # j => seq[i] # seq[j]}

\* the sequences of 0..n elements of a set
SeqsUpTo(set, n) == {<<>>} \cup Arrangements(set, n)

NoLink == [kind |-> "none", target |-> RootSpecifier]

LinksOf(kinds, targets) ==
  {NoLink} \cup {[kind |-> k, target |-> t] : k \in kinds, t \in targets}

\* the items a link adds to the module that has it
LinkItems(link) ==
  CASE link.kind = "none" -> <<>>
    [] link.kind = "import" ->
         <<It("import_named", ImportText(link.target), DepName(link.target), ""),
           It("use", "", DepName(link.target), "")>>
    [] link.kind = "export_all" ->
         <<It("export_all", ImportText(link.target), "", "")>>
    [] link.kind = "export_named_from" ->
         <<It("export_named_from", ImportText(link.target),
              DepName(link.target), "")>>
    [] link.kind = "export_ns_from" ->
         <<It("export_ns_from", ImportText(link.target), "ns", "")>>

\* a dependency: its link, then `export const <name> = 1; export const x = 1;`
DepModule(s, link) ==
  EsmModule(LinkItems(link)
            \o <<It("export_const", "", DepName(s), ""),
                 It("export_const", "", "x", "")>>)

\* a root that imports the dependencies of `order`, in this order, and uses
\* what it imports
ImportingRoot(order) ==
  EsmModule([i \in 1..Len(order) |->
               It("import_named", ImportText(order[i]), DepName(order[i]), "")]
            \o [i \in 1..Len(order) |-> It("use", "", DepName(order[i]), "")])

LinkedGraph(root, la, lb, lc) ==
  (RootSpecifier :> root) @@ (SpecA :> DepModule(SpecA, la))
  @@ (SpecB :> DepModule(SpecB, lb)) @@ (SpecC :> DepModule(SpecC, lc))

\* the root imports up to MaxRootImports dependencies, which import each other
ImportPrograms ==
  {LinkedGraph(ImportingRoot(order), la, lb, lc) :
     order \in DistinctArrangements({SpecA, SpecB, SpecC}, MaxRootImports),
     la \in LinksOf({"import"}, {SpecB, SpecC}),
     lb \in LinksOf({"import"}, {SpecA, SpecC}),
     lc \in LinksOf({"import"}, {SpecA, SpecB})}

ReExportKinds == {"export_all", "export_named_from", "export_ns_from"}

\* the root imports c, and the dependencies re-export from each other: c
\* from b, b from a, a from c
ReExportPrograms ==
  {LinkedGraph(ImportingRoot(<<SpecC>>), la, lb, lc) :
     la \in LinksOf(ReExportKinds, {SpecC}),
     lb \in LinksOf(ReExportKinds, {SpecA}),
     lc \in LinksOf(ReExportKinds, {SpecB})}

LinkedPrograms == ImportPrograms \cup ReExportPrograms

\* a program that reaches the exports of a.ts through named imports, and the
\* same program with a namespace import; `uses` are the forms of its uses
UseForms == {"use_a", "use_b", "shorthand_b", "typed"}

NamedUse(form) ==
  CASE form = "use_a" -> It("use", "", "a", "")
    [] form = "use_b" -> It("use", "", "b", "")
    [] form = "shorthand_b" -> It("use_shorthand", "", "b", "")
    [] form = "typed" -> It("typed_var", "", "T", "")

NamespaceUse(form) ==
  CASE form = "use_a" -> It("use_member", "", "ns", "a")
    [] form = "use_b" -> It("use_member", "", "ns", "b")
    [] form = "shorthand_b" -> It("use_kv", "", "ns", "b")
    [] form = "typed" -> It("typed_var_q", "", "ns", "T")

ExportingDep ==
  EsmModule(<<It("export_const", "", "a", ""), It("export_const", "", "b", ""),
              It("export_interface", "", "T", "")>>)

NamedProgram(uses) ==
  (RootSpecifier :>
     EsmModule(<<It("import_named", "./a.ts", "a", "b"),
                 It("import_named", "./a.ts", "T", "")>>
               \o [i \in 1..Len(uses) |-> NamedUse(uses[i])]))
  @@ (SpecA :> ExportingDep)

NamespaceProgram(uses) ==
  (RootSpecifier :>
     EsmModule(<<It("import_ns", "./a.ts", "ns", "")>>
               \o [i \in 1..Len(uses) |-> NamespaceUse(uses[i])]))
  @@ (SpecA :> ExportingDep)

UseSeqs == Arrangements(UseForms, MaxUses)

ImportFormPrograms ==
  {NamedProgram(uses) : uses \in UseSeqs}
  \cup {NamespaceProgram(uses) : uses \in UseSeqs}

\* a root that imports the default export of a.ts, in each of its forms
DefaultForms ==
  {"class_named", "class_anon", "fn_named", "fn_anon", "interface", "expr"}

DefaultItems(form) ==
  CASE form = "class_named" -> <<It("export_default_class", "", "A", "")>>
    [] form = "class_anon" -> <<It("export_default_class", "", "", "")>>
    [] form = "fn_named" -> <<It("export_default_fn", "", "a", "")>>
    [] form = "fn_anon" -> <<It("export_default_fn", "", "", "")>>
    [] form = "interface" -> <<It("export_default_interface", "", "T", "")>>
    [] form = "expr" -> <<It("plain_const", "", "v", ""),
                          It("export_default_expr", "", "v", "")>>

DefaultProgram(form, more) ==
  (RootSpecifier :>
     EsmModule(<<It("import_default", "./a.ts", "d", ""),
                 It("use", "", "d", "")>>))
  @@ (SpecA :>
        EsmModule(DefaultItems(form)
                  \o (IF more THEN <<It("export_const", "", "x", "")>>
                      ELSE <<>>)))

DefaultPrograms ==
  {DefaultProgram(form, more) : form \in DefaultForms, more \in BOOLEAN}

\* a root that imports the default export of a.ts, which a.ts exports by
\* name: `export { v as default }`, `export { x as default } from "./b.ts"`
DefaultAliasBodies ==
  {<<It("plain_const", "", "v", ""), It("export_named", "", "v", "default")>>,
   <<It("export_named_from", "./b.ts", "x", "default")>>}

DefaultAliasPrograms ==
  {(RootSpecifier :>
      EsmModule(<<It("import_default", "./a.ts", "d", ""),
                  It("use", "", "d", "")>>))
     @@ (SpecA :> EsmModule(body))
     @@ (SpecB :> EsmModule(<<It("export_const", "", "x", "")>>)) :
     body \in DefaultAliasBodies}

\* a.ts exports the binding it imports from b.ts, above the import
\* declaration, below it, and between two re-exports, or exports a binding
\* of its own
OrderBodies ==
  {<<It("plain_const", "", "v", ""), It("export_named", "", "v", "")>>,
   <<It("export_named", "", "b", ""), It("import_named", "./b.ts", "b", "")>>,
   <<It("import_named", "./b.ts", "b", ""), It("export_named", "", "b", "")>>,
   <<It("export_named", "", "b", "c"), It("import_named", "./b.ts", "b", "")>>,
   <<It("export_all", "./c.ts", "", ""), It("export_named", "", "b", ""),
     It("import_named", "./b.ts", "b", ""),
     It("export_named_from", "./b.ts", "x", "y")>>}

OrderPrograms ==
  {(RootSpecifier :> EsmModule(<<It("import_ns", "./a.ts", "a", ""),
                                 It("use", "", "a", "")>>))
     @@ (SpecA :> EsmModule(body))
     @@ (SpecB :> EsmModule(<<It("export_const", "", "b", ""),
                              It("export_const", "", "x", "")>>))
     @@ (SpecC :> EsmModule(<<It("export_const", "", "c", "")>>)) :
     body \in OrderBodies}

\* a.ts imports a type of b.ts: `import type { T }`, `import { type T }`
TypeImportPrograms ==
  {(RootSpecifier :> EsmModule(<<It("import_side", "./a.ts", "", "")>>))
     @@ (SpecA :> EsmModule(<<It(k, "./b.ts", "T", ""),
                              It("typed_var", "", "T", "")>>))
     @@ (SpecB :> EsmModule(<<It("export_interface", "", "T", "")>>)) :
     k \in {"import_type", "import_named_type"}}

\* a.ts, which the root imports for its effects, imports a binding of the
\* root
RootImportPrograms ==
  {(RootSpecifier :> EsmModule(<<It("import_side", "./a.ts", "", ""),
                                 It("export_const", "", "r", "")>>))
     @@ (SpecA :> EsmModule(<<It("import_named", ImportText(RootSpecifier),
                                 "r", ""),
                              It("use", "", "r", "")>>))}

\* programs with a JSON module
JsonSource == <<"\n", "{ \"k\": 1 }", "\n">>

JsonImporter(s, more) ==
  EsmModule(more \o <<It("import_json", ImportText(s), "d", ""),
                      It("use_member", "", "d", "k")>>)

JsonPrograms ==
  {(RootSpecifier :> JsonImporter(SpecJson, <<>>))
     @@ (SpecJson :> JsonModule(JsonSource)),
   (RootSpecifier :> JsonImporter(SpecJson, <<It("import_side", "./a.ts", "", "")>>))
     @@ (SpecA :> JsonImporter(SpecJson, <<It("export_const", "", "a", "")>>))
     @@ (SpecJson :> JsonModule(JsonSource)),
   (RootSpecifier :> EsmModule(<<It("import_side", "./a.ts", "", "")>>))
     @@ (SpecA :> JsonImporter(SpecJson, <<>>))
     @@ (SpecJson :> JsonModule(JsonSource)),
   (RootSpecifier :> JsonImporter(SpecRemoteJson, <<>>))
     @@ (SpecRemoteJson :> JsonModule(JsonSource))}

\* programs with modules that are not local files, or not in the graph
RemoteDep ==
  EsmModule(<<It("import_json", ImportText(SpecRemoteJson), "d", ""),
              It("export_const", "", "x", ""), It("use_member", "", "d", "k")>>)

RemotePrograms ==
  {(RootSpecifier :>
      EsmModule(<<It("import_named", ImportText(SpecRemote), "x", ""),
                  It("use", "", "x", "")>>))
     @@ (SpecRemote :> RemoteDep) @@ (SpecRemoteJson :> JsonModule(JsonSource)),
   (RootSpecifier :>
      EsmModule(<<It("import_named", ImportText(SpecLib), "x", ""),
                  It("import_named", ImportText(SpecRemote), "x", ""),
                  It("use", "", "x", "")>>))
     @@ (SpecLib :> EsmModule(<<It("export_const", "", "x", "")>>))
     @@ (SpecRemote :> RemoteDep) @@ (SpecRemoteJson :> JsonModule(JsonSource)),
   (RootSpecifier :>
      EsmModule(<<It("import_side", ImportText(SpecNpm), "", "")>>))
     @@ (SpecNpm :> NpmModule),
   (RootSpecifier :>
      EsmModule(<<It("import_side", "./missing.ts", "", "")>>))}

\* a module without imports, exports and TypeScript syntax: as a.ts, which
\* the root imports for its effects, and as the root itself
PlainItems ==
  {It("plain_const", "", "a", ""), It("plain_fn", "", "b", "c"),
   It("plain_class", "", "A", ""), It("use", "", "a", ""),
   It("await_stmt", "", "x", ""), It("fn_await", "", "d", "x")}

PlainBodies == SeqsUpTo(PlainItems, MaxItems)

UntouchedPrograms ==
  {(RootSpecifier :> EsmModule(<<It("import_side", "./a.ts", "", "")>>))
     @@ (SpecA :> EsmModule(body)) : body \in PlainBodies}
  \cup {(RootSpecifier :> EsmModule(body)) : body \in PlainBodies}

\* one item of each form, after `import { b } from "./b.ts"`: in a.ts, which
\* the root imports for its effects, and in the root itself
ItemArgs(k) ==
  CASE k \in {"use", "use_shorthand", "export_default_expr", "export_named"} ->
         <<"b", "">>
    [] k \in {"use_member", "use_kv"} -> <<"b", "x">>
    [] k \in {"typed_var", "interface", "export_interface", "export_type",
              "export_default_interface", "export_named_type",
              "export_named_from_type", "export_type_from"} -> <<"T", "">>
    [] k = "typed_var_q" -> <<"b", "T">>
    [] k = "as_expr" -> <<"b", "T">>
    [] k \in {"plain_fn"} -> <<"a", "c">>
    [] k \in {"plain_class", "export_class", "export_default_class"} ->
         <<"A", "">>
    [] k \in {"await_stmt"} -> <<"x", "">>
    [] k \in {"fn_await", "fn_expr_await", "arrow_await",
              "export_const_await"} -> <<"a", "x">>
    [] k = "method_await" -> <<"A", "x">>
    [] k = "export_const_use" -> <<"a", "b">>
    [] k = "export_object_pat" -> <<"k", "v">>
    [] k = "export_named_from" -> <<"x", "y">>
    [] k = "export_ns_from" -> <<"ns", "">>
    [] OTHER -> <<"a", "">>

SyntaxItems(k) ==
  <<It("import_named", "./b.ts", "b", ""),
    It(k, "./b.ts", ItemArgs(k)[1], ItemArgs(k)[2])>>

SyntaxDep ==
  EsmModule(<<It("export_const", "", "b", ""), It("export_const", "", "x", "")>>)

SyntaxPrograms ==
  {(RootSpecifier :> EsmModule(<<It("import_side", "./a.ts", "", "")>>))
     @@ (SpecA :> EsmModule(SyntaxItems(k))) @@ (SpecB :> SyntaxDep) :
     k \in StmtItemKinds \cup ExportItemKinds}
  \cup {(RootSpecifier :> EsmModule(SyntaxItems(k))) @@ (SpecB :> SyntaxDep) :
          k \in StmtItemKinds \cup ExportItemKinds}

\* a.ts, which the root imports as a namespace, re-exports everything of
\* two modules that both export x, or exports x itself and re-exports
\* everything of a module that exports x, or re-exports everything of a
\* module that exports nothing
StarBodies ==
  {<<It("export_all", "./b.ts", "", ""), It("export_all", "./c.ts", "", "")>>,
   <<It("export_const", "", "x", ""), It("export_all", "./b.ts", "", "")>>,
   <<It("export_all", ImportText(SpecLib), "", "")>>}

StarPrograms ==
  {(RootSpecifier :>
      EsmModule(<<It("import_ns", "./a.ts", "a", ""), It("use", "", "a", "")>>))
     @@ (SpecA :> EsmModule(body))
     @@ (SpecB :> EsmModule(<<It("export_const", "", "b", ""),
                              It("export_const", "", "x", "")>>))
     @@ (SpecC :> EsmModule(<<It("export_const", "", "c", ""),
                              It("export_const", "", "x", "")>>))
     @@ (SpecLib :> EsmModule(<<It("plain_const", "", "v", "")>>)) :
     body \in StarBodies}

\* a.ts, which the root imports for its effects, names a module the graph
\* does not have
UnresolvedKinds ==
  {"import_named", "export_all", "export_named_from", "export_ns_from"}

UnresolvedPrograms ==
  {(RootSpecifier :> EsmModule(<<It("import_side", "./a.ts", "", "")>>))
     @@ (SpecA :> EsmModule(<<It(k, "./missing.ts", "x", "")>>)) :
     k \in UnresolvedKinds}

Programs ==
  ImportFormPrograms \cup DefaultPrograms \cup JsonPrograms
  \cup RemotePrograms \cup UntouchedPrograms \cup SyntaxPrograms
  \cup StarPrograms \cup UnresolvedPrograms \cup DefaultAliasPrograms
  \cup OrderPrograms \cup TypeImportPrograms \cup RootImportPrograms

(***************************************************************************)
(* A run of pack, one loop iteration at a time.                            *)
(***************************************************************************)
\* no get_export_names call is running
NoQuery ==
  [stack |-> <<>>, seen |-> {}, result |-> {},
   visits |-> [s \in AllSpecifiers |-> 0], specifier |-> <<>>,
   names |-> <<>>]

EmptyWalker == [seen |-> {}, visiting |-> <<>>, previous |-> <<>>]

\* the roots a graph is handed over with: none, one, two
RootChoices == {<<>>, <<RootSpecifier>>, <<RootSpecifier, SpecA>>}

\* the parsers pack is handed: one that parses every module, one that
\* returns an error for a.ts
ParserChoices == {{}, {SpecA}}

InitOn(programs, parsers) ==
  /\ graph \in programs
  /\ roots \in RootChoices
  /\ parser \in parsers
  /\ include_remote \in BOOLEAN
  /\ hash_seed \in 0..MaxSeed
  /\ pc = "start"
  /\ walker = EmptyWalker
  /\ ordered_specifiers = <<>>
  /\ module_data = NoReplaceIds
  /\ final_text = <<>>
  /\ idx = 0
  /\ query = NoQuery

\* the state of pack as the record the loop bodies work on
PackState ==
  [ok |-> TRUE, err |-> FALSE, parser |-> parser, walker |-> walker,
   ordered_specifiers |-> ordered_specifiers, md |-> module_data,
   final_text |-> final_text]

\* lines 218-238: the assertion on the roots, the context, graph.walk
Start ==
  /\ pc = "start"
  /\ IF Len(roots) = 1
       THEN /\ pc' = "walk"
            /\ walker' = Walk(roots)
       ELSE /\ pc' = "panic"
            /\ walker' = walker
  /\ UNCHANGED <<query, graph, roots, parser, include_remote, hash_seed,
                 ordered_specifiers, module_data, final_text, idx>>

\* lines 239-261: modules.next() and the body of the while loop
WalkStep ==
  /\ pc = "walk"
  /\ \E r \in {WalkerNext(graph, walker)} :
       IF r.item = <<>>
         THEN /\ pc' = "declare"
              /\ walker' = r.walker
              /\ idx' = 1
              /\ UNCHANGED <<ordered_specifiers, module_data>>
         ELSE \E st \in {WalkModule(graph, include_remote,
                                     [PackState EXCEPT !.walker = r.walker],
                                     r.item[1])} :
                /\ pc' = IF st.ok THEN "walk"
                         ELSE IF st.err THEN "error" ELSE "panic"
                /\ walker' = st.walker
                /\ ordered_specifiers' = st.ordered_specifiers
                /\ module_data' = st.md
                /\ idx' = idx
  /\ UNCHANGED <<query, graph, roots, parser, include_remote, hash_seed, final_text>>

\* lines 265-312: one iteration of the first for loop
DeclareStep ==
  /\ pc = "declare"
  /\ idx <= Len(ordered_specifiers)
  /\ \E r \in {DeclareModule(graph, module_data, final_text,
                                GetRootDir(ordered_specifiers),
                                ordered_specifiers[idx], hash_seed)} :
       /\ module_data' = r.md
       /\ final_text' = r.final_text
  /\ idx' = idx + 1
  /\ UNCHANGED <<query, graph, roots, parser, include_remote, hash_seed, pc, walker,
                 ordered_specifiers>>

\* the end of the first for loop and the start of the second, in reverse
DeclareDone ==
  /\ pc = "declare"
  /\ idx > Len(ordered_specifiers)
  /\ pc' = "emit"
  /\ idx' = Len(ordered_specifiers)
  /\ UNCHANGED <<query, graph, roots, parser, include_remote, hash_seed, walker, ordered_specifiers,
                 module_data, final_text>>

\* lines 314-425: one iteration of the second for loop
EmitStep ==
  /\ pc = "emit"
  /\ idx >= 1
  /\ \E r \in {EmitModule(graph, module_data, final_text,
                             GetRootDir(ordered_specifiers),
                             ordered_specifiers[idx], include_remote,
                             hash_seed)} :
       /\ pc' = IF r.ok THEN "emit" ELSE "panic"
       /\ final_text' = r.final_text
  /\ idx' = idx - 1
  /\ UNCHANGED <<query, graph, roots, parser, include_remote, hash_seed, walker, ordered_specifiers,
                 module_data>>

\* line 427: Ok(final_text)
Return ==
  /\ pc = "emit"
  /\ idx = 0
  /\ pc' = "done"
  /\ UNCHANGED <<query, graph, roots, parser, include_remote, hash_seed, walker, ordered_specifiers,
                 module_data, final_text, idx>>

Next == Start \/ WalkStep \/ DeclareStep \/ DeclareDone \/ EmitStep \/ Return

Init == InitOn(Programs, ParserChoices)

Spec == Init /\ [][Next]_vars

\* the runs of pack on the programs whose modules import and re-export from
\* each other, with a parser that parses every module
InitLinked == InitOn(LinkedPrograms, {{}})

SpecLinked == InitLinked /\ [][Next]_vars

(***************************************************************************)
(* The registry on its own: any sequence of get_mut calls.                 *)
(***************************************************************************)
InitRegistry ==
  /\ graph = <<>>
  /\ roots = <<>>
  /\ parser = {}
  /\ include_remote = TRUE
  /\ hash_seed = 0
  /\ pc = "registry"
  /\ walker = EmptyWalker
  /\ ordered_specifiers = <<>>
  /\ module_data = <<>>
  /\ final_text = <<>>
  /\ idx = 0
  /\ query = NoQuery

GetMutCall ==
  /\ pc = "registry"
  /\ idx < MaxCalls
  /\ \E s \in AllSpecifiers : module_data' = GetMut(module_data, s)
  /\ idx' = idx + 1
  /\ UNCHANGED <<query, graph, roots, parser, include_remote, hash_seed, pc, walker,
                 ordered_specifiers, final_text>>

NextRegistry == GetMutCall

SpecRegistry == InitRegistry /\ [][NextRegistry]_vars

(***************************************************************************)
(* The text changes on their own: any changes pushed to the text_changes   *)
(* of one module, in any order, and then applied to its text.              *)
(***************************************************************************)
\* the text of the module: MaxOffset lexemes, all different
EditSource == SubSeq(<<"a", "b", "c", "d", "e", "f">>, 1, MaxOffset)

InitEdits ==
  /\ graph = <<>>
  /\ roots = <<>>
  /\ parser = {}
  /\ include_remote = TRUE
  /\ hash_seed = 0
  /\ pc = "edits"
  /\ walker = EmptyWalker
  /\ ordered_specifiers = <<>>
  /\ module_data = GetMut(NoReplaceIds, SpecA)
  /\ final_text = <<>>
  /\ idx = 0
  /\ query = NoQuery

\* add_remove_range (lines 180-185) and the pushes of replace_ident_text
\* (lines 919-931): a range of the text is removed, or replaced by a new
\* text, which here names the push it comes from
PushChange ==
  /\ pc = "edits"
  /\ idx < MaxChanges
  /\ \E lo \in 0..MaxOffset : \E hi \in lo..MaxOffset :
       \E e \in {RemoveRange(lo, hi),
                 Push(TextChange(lo, hi, <<Digits[idx + 1]>>))} :
         module_data' =
           [module_data EXCEPT ![SpecA].text_changes = @ \o e.tc]
  /\ idx' = idx + 1
  /\ UNCHANGED <<query, graph, roots, parser, include_remote, hash_seed, pc, walker,
                 ordered_specifiers, final_text>>

\* lines 328-330: apply_text_changes(source, text_changes.clone())
ApplyChanges ==
  /\ pc = "edits"
  /\ \E r \in {ApplyTextChanges(EditSource, module_data[SpecA].text_changes)} :
       /\ pc' = IF r.ok THEN "applied" ELSE "panic"
       /\ final_text' = IF r.ok THEN r.text ELSE final_text
  /\ UNCHANGED <<query, graph, roots, parser, include_remote, hash_seed, walker,
                 ordered_specifiers, module_data, idx>>

NextEdits == PushChange \/ ApplyChanges

SpecEdits == InitEdits /\ [][NextEdits]_vars

(***************************************************************************)
(* get_export_names step by step: one query on a registry that a walk has  *)
(* filled.  A frame of `inner` is [specifier, j]: the module it reads and  *)
(* the re-export its for loop is at.  A single thread runs the query, so   *)
(* a step that can be taken is taken.                                      *)
(***************************************************************************)
\* the registry after the walk of pack on a graph
RegistryOf(g, remote) ==
  WalkAll(g, remote,
          [ok |-> TRUE, err |-> FALSE, parser |-> {},
           walker |-> Walk(<<RootSpecifier>>), ordered_specifiers |-> <<>>,
           md |-> NoReplaceIds, final_text |-> <<>>]).md

\* modules that re-export everything of each other: rings of three, chains,
\* a module that re-exports itself, a ring of two, and two paths to the
\* same module
QueryPrograms ==
  ReExportPrograms
  \cup {(RootSpecifier :> EsmModule(<<It("import_side", "./a.ts", "", "")>>))
          @@ (SpecA :> EsmModule(<<It("export_all", "./a.ts", "", ""),
                                   It("export_const", "", "a", "")>>)),
        (RootSpecifier :> EsmModule(<<It("import_side", "./a.ts", "", "")>>))
          @@ (SpecA :> EsmModule(<<It("export_all", "./b.ts", "", ""),
                                   It("export_const", "", "a", "")>>))
          @@ (SpecB :> EsmModule(<<It("export_all", "./a.ts", "", ""),
                                   It("export_const", "", "b", "")>>)),
        (RootSpecifier :> EsmModule(<<It("import_side", "./a.ts", "", "")>>))
          @@ (SpecA :> EsmModule(<<It("export_all", "./b.ts", "", ""),
                                   It("export_all", "./c.ts", "", "")>>))
          @@ (SpecB :> EsmModule(<<It("export_all", ImportText(SpecLib), "", ""),
                                   It("export_const", "", "b", "")>>))
          @@ (SpecC :> EsmModule(<<It("export_all", ImportText(SpecLib), "", ""),
                                   It("export_const", "", "c", "")>>))
          @@ (SpecLib :> EsmModule(<<It("export_const", "", "v", "")>>))}

InitQuery ==
  /\ graph = <<>>
  /\ roots = <<>>
  /\ parser = {}
  /\ include_remote = TRUE
  /\ hash_seed \in 0..MaxSeed
  /\ pc = "query"
  /\ walker = EmptyWalker
  /\ ordered_specifiers = <<>>
  /\ module_data \in {RegistryOf(g, TRUE) : g \in QueryPrograms}
  /\ final_text = <<>>
  /\ idx = 0
  /\ query = NoQuery

\* a seen set that takes every specifier as new
SeenInsertAlways(seen, s) == TRUE

\* seen.insert(specifier): true when the specifier was not in the set
SeenInsert(seen, s) == s \notin seen

\* a call of inner (lines 106-108): the query after seen.insert and
\* result.extend, with the frame of the call on the stack
Enter(md, q, s) ==
  IF ~SeenInsert(q.seen, s) THEN q
  ELSE IF s \notin DOMAIN md
    THEN [q EXCEPT !.seen = @ \cup {s}, !.visits[s] = @ + 1]
  ELSE [q EXCEPT
          !.seen = @ \cup {s},
          !.visits[s] = @ + 1,
          !.result = @ \cup {ExportNameOf(md[s].exports[i]) :
                               i \in 1..Len(md[s].exports)},
          !.stack = Append(@, [specifier |-> s, j |-> 1])]

\* the frame that is running
Top == query.stack[Len(query.stack)]

\* lines 124-125: get_export_names calls inner with empty sets
QueryCall ==
  /\ pc = "query"
  /\ \E s \in AllSpecifiers :
       query' = Enter(module_data, [NoQuery EXCEPT !.specifier = <<s>>], s)
  /\ pc' = "inner"
  /\ UNCHANGED <<graph, roots, parser, include_remote, hash_seed, walker,
                 ordered_specifiers, module_data, final_text, idx>>

\* lines 109-121: one iteration of the loop over re_exports
InnerStep ==
  /\ pc = "inner"
  /\ query.stack # <<>>
  /\ Top.j <= Len(module_data[Top.specifier].re_exports)
  /\ \E r \in {module_data[Top.specifier].re_exports[Top.j]} :
       \E q \in {[query EXCEPT !.stack[Len(query.stack)].j = @ + 1]} :
         query' = IF r.name.tag = "All"
                    THEN Enter(module_data, q, r.specifier)
                    ELSE [q EXCEPT !.result = @ \cup ReExportedName(r)]
  /\ UNCHANGED <<graph, roots, parser, include_remote, hash_seed, pc, walker,
                 ordered_specifiers, module_data, final_text, idx>>

\* the loop of a frame is over: inner returns to its caller
InnerReturn ==
  /\ pc = "inner"
  /\ query.stack # <<>>
  /\ Top.j > Len(module_data[Top.specifier].re_exports)
  /\ query' = [query EXCEPT !.stack = SubSeq(@, 1, Len(@) - 1)]
  /\ UNCHANGED <<graph, roots, parser, include_remote, hash_seed, pc, walker,
                 ordered_specifiers, module_data, final_text, idx>>

\* lines 126-131: the result is collected and sorted
QueryReturn ==
  /\ pc = "inner"
  /\ query.stack = <<>>
  /\ \E collected \in {HashIter(query.result, hash_seed)} :
       \E names \in {SortUnstable(collected)} :
         query' = [query EXCEPT !.names = names]
  /\ pc' = "returned"
  /\ UNCHANGED <<graph, roots, parser, include_remote, hash_seed, walker,
                 ordered_specifiers, module_data, final_text, idx>>

NextQuery == QueryCall \/ InnerStep \/ InnerReturn \/ QueryReturn

SpecExportNames == InitQuery /\ [][NextQuery]_vars /\ WF_vars(NextQuery)

\* C1: two distinct specifiers never hold the same ModuleId, and a specifier
\* keeps, over every later get_mut call, the ModuleId of its first touch.
DistinctIds ==
  \A s1, s2 \in DOMAIN module_data :
    s1 # s2 => module_data[s1].id # module_data[s2].id

StableIds ==
  \A s \in DOMAIN module_data :
    s \in DOMAIN module_data' /\ module_data'[s].id = module_data[s].id

C1_IdentityAssignment == []DistinctIds /\ [][StableIds]_vars

C1_Witness ==
  /\ pc = "registry"
  /\ Cardinality(DOMAIN module_data) >= 3
  /\ idx > Cardinality(DOMAIN module_data)

(***************************************************************************)
(* The notions the properties below are stated in.                         *)
(***************************************************************************)
Analyzed(s) == s \in DOMAIN module_data /\ pc \in {"declare", "emit", "done"}

\* the "// <specifier>" line that opens the block of a module
HeaderOf(s) ==
  "// " \o DisplayedSpecifier(GetRootDir(ordered_specifiers), s) \o "\n"

\* the positions in final_text of the block of a module
BlockAt(s) == {i \in 1..Len(final_text) : final_text[i] = HeaderOf(s)}

HasChunk(chunk) == \E i \in 1..Len(final_text) : final_text[i] = chunk

Wrappers == {"(() => {\n", "await (async () => {\n"}

InlinedModules ==
  {s \in DOMAIN graph : graph[s].kind = "Esm" /\ BlockAt(s) # {}}

\* C2: no two text changes of an analyzed module have overlapping ranges, so
\* that applying them never fails.
Overlaps(c1, c2) == c1.lo < c2.hi /\ c2.lo < c1.hi

C2_NonOverlap ==
  \A s \in DOMAIN module_data :
    \A i, j \in 1..Len(module_data[s].text_changes) :
      i < j => ~Overlaps(module_data[s].text_changes[i],
                         module_data[s].text_changes[j])

\* the modules that m imports or re-exports from
DependencySet(m) ==
  {Dependencies(graph, m)[i] : i \in 1..Len(Dependencies(graph, m))}

\* the modules that the modules of `set` depend on, directly or not
RECURSIVE DependencyClosure(_)
DependencyClosure(set) ==
  LET next == set \cup UNION {DependencySet(m) : m \in set}
  IN IF next = set THEN set ELSE DependencyClosure(next)

\* C3: in the packed output the block of an inlined non-root module D comes
\* before the block of every inlined module M that imports or re-exports
\* from D (stated for the D that do not depend on M in turn: in a cycle no
\* order can serve both modules).
C3_DependencyFirst ==
  pc = "done" =>
    \A d, m \in InlinedModules :
      (d # RootSpecifier /\ d # m /\ d \in DependencySet(m)
       /\ m \notin DependencyClosure(DependencySet(d)))
      => \A i \in BlockAt(d), j \in BlockAt(m) : i < j

\* the modules reached from the modules of `set` over `export *` edges
AllEdges(m) ==
  IF m \in DOMAIN module_data
    THEN {module_data[m].re_exports[i].specifier :
            i \in {j \in 1..Len(module_data[m].re_exports) :
                     module_data[m].re_exports[j].name.tag = "All"}}
    ELSE {}

RECURSIVE AllClosure(_)
AllClosure(set) ==
  LET next == set \cup UNION {AllEdges(m) : m \in set}
  IN IF next = set THEN set ELSE AllClosure(next)

\* the export names a module records itself
RecordedNames(m) ==
  IF m \notin DOMAIN module_data THEN {}
  ELSE LET data == module_data[m]
       IN {IF data.exports[i].export_name = <<>>
             THEN data.exports[i].local_name
             ELSE data.exports[i].export_name[1] : i \in 1..Len(data.exports)}
          \cup {IF data.re_exports[i].name.export_name = <<>>
                  THEN data.re_exports[i].name.local_name
                  ELSE data.re_exports[i].name.export_name[1] :
                  i \in {j \in 1..Len(data.re_exports) :
                           data.re_exports[j].name.tag # "All"}}

\* C4: get_export_names(M) is exactly the names recorded by M and by every
\* module reached from M over `export *` edges, each name once, also when
\* the edges form a cycle.
C4_ExportNameClosure ==
  \A m \in DOMAIN module_data :
    LET names == GetExportNames(module_data, m, hash_seed)
    IN /\ {names[i] : i \in 1..Len(names)}
            = UNION {RecordedNames(d) : d \in AllClosure({m})}
       /\ \A i, j \in 1..Len(names) : i # j => names[i] # names[j]

\* a exports x, b re-exports * from a, c from b and a from c: the names of c
\* hold x
C4_Witness ==
  /\ pc = "done"
  /\ AllEdges(SpecA) = {SpecC}
  /\ AllEdges(SpecB) = {SpecA}
  /\ AllEdges(SpecC) = {SpecB}
  /\ \E i \in 1..Len(GetExportNames(module_data, SpecC, hash_seed)) :
       GetExportNames(module_data, SpecC, hash_seed)[i] = "x"

\* C5: packing the same graph again with the same options gives the same
\* bytes, whatever order the hash sets of the other run iterate in.
C5_Deterministic ==
  pc = "done" =>
    PackText(graph, include_remote, (hash_seed + 1) % (MaxSeed + 1))
      = [ok |-> TRUE, text |-> Join(final_text)]

\* a run whose hash set of export names iterates in another order than that
\* of the run it is compared with
C5_Witness ==
  /\ pc = "done"
  /\ \E m \in DOMAIN module_data :
       LET names == UNION {RecordedNames(d) : d \in AllClosure({m})}
       IN HashIter(names, hash_seed)
            # HashIter(names, (hash_seed + 1) % (MaxSeed + 1))

\* the Esm modules that analyze_esm_module was run on
AnalyzedModules ==
  {s \in DOMAIN graph :
     /\ \E i \in 1..Len(ordered_specifiers) : ordered_specifiers[i] = s
     /\ graph[s].kind = "Esm"
     /\ (include_remote \/ IsFile(s))}

\* the import aliases of a module and their replacements
ReplaceIdsOf(s) ==
  AnalyzeImports(graph, Children(ParseModule(graph[s].source)), 1,
                 [ok |-> TRUE, md |-> module_data,
                  replace_ids |-> NoReplaceIds, found_tla |-> FALSE]).replace_ids

\* the offsets of the source of a module that hold an import alias outside
\* the import declarations
UsesOf(s) ==
  LET module == ParseModule(graph[s].source)
      leaves == Leaves(module)
      items == ChildrenAt(module, 0)
      imports == {i \in 1..Len(items) : items[i][1].kind = "ImportDecl"}
  IN {off \in 0..(Len(leaves) - 1) :
        /\ leaves[off + 1].kind = "Ident"
        /\ ToId(leaves[off + 1]) \in DOMAIN ReplaceIdsOf(s)
        /\ \A i \in imports :
             ~(items[i][2] <= off /\ off < items[i][2] + Width(items[i][1]))}

\* a use is rewritten when a text change replaces it by the qualified name,
\* and gone when a text change removes the type or declaration it is in
RewrittenOrRemoved(s, off) ==
  LET qualified == ReplaceIdsOf(s)[ToId(Leaves(ParseModule(graph[s].source))[off + 1])]
      changes == module_data[s].text_changes
  IN \E i \in 1..Len(changes) :
       \/ /\ changes[i].lo = off /\ changes[i].hi = off + 1
          /\ changes[i].new_text \in
               {<<qualified>>,
                <<Leaves(ParseModule(graph[s].source))[off + 1].sym \o ": "
                  \o qualified>>}
       \/ /\ changes[i].lo <= off /\ off + 1 <= changes[i].hi
          /\ changes[i].new_text = <<>>

\* the dependencies a module imports at run time
ImportedBy(s) ==
  LET body == Children(ParseModule(graph[s].source))
  IN {ResolveDependency(graph, body[i].sym)[1] :
        i \in {j \in 1..Len(body) :
                 /\ body[j].kind = "ImportDecl"
                 /\ "type_only" \notin body[j].flags
                 /\ ResolveDependency(graph, body[j].sym) # <<>>}}

\* C6: exactly one module body is emitted unwrapped, the root's; every other
\* inlined module is wrapped in a function scope; a namespace object is
\* declared for each imported dependency that has exports; every use of an
\* imported binding is rewritten to its namespace-qualified form.
C6_RootUnwrappedOthersWrapped ==
  pc = "done" =>
    /\ BlockAt(RootSpecifier) # {}
    /\ \A s \in InlinedModules :
         \A i \in BlockAt(s) :
           (final_text[i + 1] \in Wrappers) <=> (s # RootSpecifier)
    /\ \A s \in AnalyzedModules :
         \A d \in ImportedBy(s) :
           GetExportNames(module_data, d, hash_seed) # <<>>
           => HasChunk("const " \o ToCodeString(module_data[d].id) \o " = {\n")
    /\ \A s \in AnalyzedModules :
         \A off \in UsesOf(s) : RewrittenOrRemoved(s, off)

\* C7: a program that reaches the exports of a dependency through named
\* imports and the same program with a namespace import pack to the same
\* text.
C7_ImportFormEquivalence ==
  pc = "done" =>
    \A uses \in UseSeqs :
      graph = NamedProgram(uses)
      => PackText(NamespaceProgram(uses), include_remote, hash_seed)
           = [ok |-> TRUE, text |-> Join(final_text)]

C7_Witness ==
  /\ pc = "done"
  /\ \E uses \in UseSeqs :
       /\ graph = NamedProgram(uses)
       /\ \E i \in 1..Len(uses) : uses[i] = "shorthand_b"
       /\ \E i \in 1..Len(uses) : uses[i] = "typed"

\* the exports of a module under the export name `default`
DefaultExports(s) ==
  SelectSeq(module_data[s].exports, LAMBDA e : e.export_name = <<"default">>)

\* what a default export is bound to, and the text its declaration becomes
DefaultBinding(form) ==
  CASE form = "class_named" -> "A"
    [] form = "fn_named" -> "a"
    [] form \in {"class_anon", "fn_anon"} -> "__pack_default__"

DefaultText(form) ==
  CASE form = "class_named" -> "class A {}"
    [] form = "class_anon" -> "const __pack_default__ = class {}"
    [] form = "fn_named" -> "function a() {}"
    [] form = "fn_anon" -> "const __pack_default__ = function() {}"

\* C8: a non-root module whose default export is a named or anonymous class
\* or function records exactly one export named `default`, bound to the
\* identifier of the declaration or else to a `__pack_default__` binding that
\* its text declares, and its namespace object gets a `default` member bound
\* to it; a default-exported interface records no export and gets no
\* `default` member.
C8_DefaultExportForms ==
  \A form \in DefaultForms \ {"expr"}, more \in BOOLEAN :
    (graph = DefaultProgram(form, more) /\ Analyzed(SpecA)) =>
      LET code == ToCodeString(module_data[SpecA].id)
      IN IF form = "interface"
           THEN /\ DefaultExports(SpecA) = <<>>
                /\ ~HasChunk("  default: undefined,\n")
                /\ \A l \in {"T", "__pack_default__"} :
                     ~HasChunk(DefineProperty(code, "default", l))
           ELSE /\ Len(DefaultExports(SpecA)) = 1
                /\ DefaultExports(SpecA)[1].local_name = DefaultBinding(form)
                /\ pc = "done" =>
                     /\ HasChunk("  default: undefined,\n")
                     /\ HasChunk(DefineProperty(code, "default",
                                                DefaultBinding(form)))
                     /\ HasChunk(DefaultText(form)
                                 \o (IF more THEN "\nconst x = 1;" ELSE "")
                                 \o "\n")

C8_Witness ==
  /\ pc = "done"
  /\ graph = DefaultProgram("fn_anon", TRUE)
  /\ HasChunk(DefineProperty("pack0", "default", "__pack_default__"))

\* C9: every JSON module reached by the walk is emitted exactly once as a
\* namespace object whose only member is `default`, holding the JSON text,
\* under the pack<N> name a default import of it is rewritten to, and has no
\* body block.
C9_JsonModule ==
  pc = "done" =>
    \A s \in {ordered_specifiers[i] : i \in 1..Len(ordered_specifiers)} :
      graph[s].kind = "Json" =>
        /\ s \in DOMAIN module_data
        /\ Cardinality(
             {i \in 1..Len(final_text) :
                final_text[i]
                  = HeaderOf(s) \o "const "
                    \o ToCodeString(module_data[s].id)
                    \o " = {\n  default: { \"k\": 1 }\n};\n"}) = 1
        /\ BlockAt(s) = {}
        /\ \A m \in AnalyzedModules :
             \A id \in DOMAIN ReplaceIdsOf(m) :
               (s \in ImportedBy(m) /\ id[1] = "d")
               => ReplaceIdsOf(m)[id]
                    = ToCodeString(module_data[s].id) \o ".default"

\* the module of an untouched program that has the statements
PlainModule == IF SpecA \in DOMAIN graph THEN SpecA ELSE RootSpecifier

Output == IF pc = "done" THEN Some(Join(final_text)) ELSE None

\* the module item names a module the graph cannot resolve
Unresolved(item) ==
  /\ item.kind \in SourcedKinds
  /\ item.sym # ""
  /\ "type_only" \notin item.flags
  /\ ResolveDependency(graph, item.sym) = <<>>

\* an analyzed module names a module the graph cannot resolve
UnresolvedSpecifier ==
  \E s \in AnalyzedModules \ parser :
    LET body == Children(ParseModule(graph[s].source))
    IN \E i \in 1..Len(body) : Unresolved(body[i])

\* the walk has come to a module that is neither Esm nor Json
UnhandledModuleKind ==
  \E s \in walker.seen : graph[s].kind \notin {"Esm", "Json"}

GraphError ==
  Len(roots) # 1 \/ UnresolvedSpecifier \/ UnhandledModuleKind

\* C11: pack returns no output text when the graph does not have exactly one
\* root, when an analyzed module names a module the graph cannot resolve, or
\* when the walk reaches a module that is neither Esm nor Json; the run ends
\* before anything was written to the output.
C11_NoOutputOnGraphError ==
  GraphError =>
    /\ Output = None
    /\ pc \in {"panic", "error"} => final_text = <<>>

C11_Witness ==
  /\ pc = "panic"
  /\ Len(roots) = 1
  /\ ordered_specifiers = <<RootSpecifier, SpecA>>
  /\ UnresolvedSpecifier
  /\ \E i \in 1..Len(graph[SpecA].source) :
       graph[SpecA].source[i].k = "export_all"

\* an analyzed module exports a variable declaration with a pattern that
\* analyze_esm_module has no arm for
UnsupportedPattern(item) ==
  /\ item.kind = "ExportDecl"
  /\ Children(item)[1].kind = "VarDecl"
  /\ "declare" \notin Children(item)[1].flags
  /\ LET decls == ChildrenOfKind(Children(item)[1], {"VarDeclarator"})
     IN \E j \in 1..Len(decls) : ~ExportNamesOfPat(Children(decls[j])[1]).ok

SyntaxUnsupported ==
  \E s \in (AnalyzedModules \ parser) \ {RootSpecifier} :
    LET body == Children(ParseModule(graph[s].source))
    IN \E i \in 1..Len(body) : UnsupportedPattern(body[i])

\* the text changes recorded for a module cannot be applied to its text
EditConflict ==
  \E s \in DOMAIN module_data :
    /\ graph[s].kind = "Esm"
    /\ ~ApplyTextChanges(TextOf(ParseModule(graph[s].source)),
                         module_data[s].text_changes).ok

FatalCondition == GraphError \/ SyntaxUnsupported \/ EditConflict

\* C12: a run of pack leaves pack by a return only, with Ok(final_text) or
\* with an Err, and a run that met a fatal condition (a graph error, syntax
\* the analysis has no arm for, text changes that cannot be applied) does
\* not return Ok.
C12_FailureIsResult ==
  /\ pc # "panic"
  /\ FatalCondition => pc # "done"

\* the modules the walk has pushed to ordered_specifiers
Walked == {ordered_specifiers[i] : i \in 1..Len(ordered_specifiers)}

\* the statement that stands for a module that is not inlined
ImportLine(s) ==
  "import * as " \o ToCodeString(module_data[s].id) \o " from \"" \o AsStr(s)
  \o "\";\n"

\* the ModuleData of a module that get_mut created and nothing touched since
Untouched(s) ==
  /\ module_data[s].exports = <<>>
  /\ module_data[s].re_exports = <<>>
  /\ module_data[s].text_changes = <<>>
  /\ ~module_data[s].has_tla
  /\ ~module_data[s].requires_transpile

\* the walked modules that are inlined when include_remote is false
FileModules == {m \in Walked : IsFile(m)}

\* C13: when include_remote is false, a module of another scheme than file
\* that the walk reached is in the output as its one `import * as pack<N>
\* from "<specifier>"` statement and nothing else: it has no block, it was
\* not analyzed, and a dependency of it was walked only if a file module
\* depends on it too.
C13_RemoteLeftExternal ==
  (pc = "done" /\ ~include_remote) =>
    \A s \in Walked \ FileModules :
      /\ Cardinality({i \in 1..Len(final_text) :
                        final_text[i] = ImportLine(s)}) = 1
      /\ BlockAt(s) = {}
      /\ Untouched(s)
      /\ LET deps == Dependencies(graph, s)
         IN \A j \in 1..Len(deps) :
              deps[j] \in Walked =>
                \E m \in FileModules :
                  \E k \in 1..Len(Dependencies(graph, m)) :
                    Dependencies(graph, m)[k] = deps[j]

C13_Witness ==
  /\ pc = "done"
  /\ ~include_remote
  /\ SpecRemote \in Walked
  /\ SpecLib \in Walked
  /\ Dependencies(graph, SpecRemote) = <<SpecRemoteJson>>
  /\ SpecRemoteJson \notin Walked
  /\ HasChunk(ImportLine(SpecRemote))

\* the export names of a module: its own and those of the modules it
\* reaches over `export *`
ExportNamesOf(s) == UNION {RecordedNames(d) : d \in AllClosure({s})}

\* the chunks from position i on are the namespace object of s: its opening
\* line, one placeholder line for each name, in some order, its closing line
NamespaceObjectAt(s, i, names) ==
  /\ i + Cardinality(names) + 1 <= Len(final_text)
  /\ final_text[i] = "const " \o ToCodeString(module_data[s].id) \o " = {\n"
  /\ {final_text[j] : j \in (i + 1)..(i + Cardinality(names))}
       = {"  " \o n \o ": undefined,\n" : n \in names}
  /\ final_text[i + Cardinality(names) + 1] = "};\n"

HasExports(s) ==
  module_data[s].exports # <<>> \/ module_data[s].re_exports # <<>>

\* C14: once the forward declarations are written, every inlined module but
\* the root that has an export or a re-export has its namespace object among
\* them, with an `undefined` placeholder for each of its export names, those
\* it reaches over `export *` included.
C14_ForwardDeclared ==
  pc \in {"emit", "done"} =>
    \A s \in AnalyzedModules \ {RootSpecifier} :
      HasExports(s) =>
        \E i \in 1..Len(final_text) :
          NamespaceObjectAt(s, i, ExportNamesOf(s))

\* the text changes that were pushed, in the order of the pushes
PushedChanges == module_data[SpecA].text_changes

NonOverlapping(changes) ==
  \A i, j \in 1..Len(changes) : i # j => ~Overlaps(changes[i], changes[j])

DistinctRanges(changes) ==
  \A i, j \in 1..Len(changes) :
    i # j => changes[i].lo # changes[j].lo \/ changes[i].hi # changes[j].hi

\* the orders the same changes can have been pushed in
Orders(changes) ==
  {[i \in 1..Len(changes) |-> changes[p[i]]] :
     p \in {q \in [1..Len(changes) -> 1..Len(changes)] :
              \A i, j \in 1..Len(changes) : i # j => q[i] # q[j]}}

\* sorted by the start of the range, and by its end where the starts are equal
SortedByRange(changes) ==
  \A i, j \in 1..Len(changes) : i < j => ChangeLeq(changes[i], changes[j])

\* r_i.replacement, original[r_i.end..r_i+1.start], ..., original[last.end..]
RECURSIVE PatchedFrom(_, _, _)
PatchedFrom(original, sorted, i) ==
  sorted[i].new_text
  \o (IF i = Len(sorted)
        THEN SubSeq(original, sorted[i].hi + 1, Len(original))
        ELSE SubSeq(original, sorted[i].hi + 1, sorted[i + 1].lo)
             \o PatchedFrom(original, sorted, i + 1))

\* original[0..r_1.start], r_1.replacement, ..., original[last.end..]
Patched(original, sorted) ==
  IF sorted = <<>> THEN original
  ELSE SubSeq(original, 1, sorted[1].lo) \o PatchedFrom(original, sorted, 1)

\* the changes were applied and gave the patched text, and would have given
\* it in whatever order they had been pushed
AppliedInAnyOrder ==
  /\ pc = "applied"
  /\ \A sorted \in Orders(PushedChanges) :
       SortedByRange(sorted) => final_text = Patched(EditSource, sorted)
  /\ \A pushed \in Orders(PushedChanges) :
       ApplyTextChanges(EditSource, pushed) = [ok |-> TRUE, text |-> final_text]

GetterTargets(s) ==
  {module_data[s].exports[i].local_name :
     i \in 1..Len(module_data[s].exports)}
  \cup {ToCodeString(module_data[d].id) \o "." \o n :
          d \in DOMAIN module_data,
          n \in UNION {ExportNamesOf(m) : m \in DOMAIN module_data}
                \cup {module_data[s].re_exports[i].name.local_name :
                        i \in 1..Len(module_data[s].re_exports)}}

\* the positions in final_text of the property definitions of the name n of
\* the namespace object of s
DefinitionsOf(s, n) ==
  {i \in 1..Len(final_text) :
     \E t \in GetterTargets(s) :
       final_text[i] = DefineProperty(ToCodeString(module_data[s].id), n, t)}

\* C16: in the output, no export name of an inlined module but the root has
\* more than one property definition on the namespace object of the module:
\* an `export *` expansion skips every name the block has defined before it,
\* by an earlier `export *` expansion too.
C16_DefinedOnce ==
  pc = "done" =>
    \A s \in AnalyzedModules \ {RootSpecifier} :
      \A n \in ExportNamesOf(s) : Cardinality(DefinitionsOf(s, n)) <= 1

\* C17: once the root is analyzed, its ModuleData has no exports and no
\* re-exports, whatever export declarations the root has.
C17_RootRecordsNothing ==
  Analyzed(RootSpecifier) =>
    /\ module_data[RootSpecifier].exports = <<>>
    /\ module_data[RootSpecifier].re_exports = <<>>

\* the node is, or holds outside every function, arrow function and class
\* method, an await expression
RECURSIVE AwaitOutsideFunctions(_)
AwaitOutsideFunctions(node) ==
  /\ node.kind \notin FunctionBoundaryKinds
  /\ \/ node.kind = "AwaitExpr"
     \/ \E i \in 1..Len(Children(node)) :
          AwaitOutsideFunctions(Children(node)[i])

\* the node is or holds an await expression
RECURSIVE HoldsAwait(_)
HoldsAwait(node) ==
  \/ node.kind = "AwaitExpr"
  \/ \E i \in 1..Len(Children(node)) : HoldsAwait(Children(node)[i])

\* the top-level items of a module
ItemsOf(s) == Children(ParseModule(graph[s].source))

\* the module awaits at its top level, in a statement or in a declaration
TopLevelAwait(s) ==
  \E i \in 1..Len(ItemsOf(s)) : AwaitOutsideFunctions(ItemsOf(s)[i])

\* C18: an inlined module but the root that awaits at its top level, in any
\* top-level item, has has_tla set and its block opens with
\* `await (async () => {`; one that does not has has_tla unset and its block
\* opens with `(() => {`.
C18_AsyncWrapperIffTopLevelAwait ==
  pc = "done" =>
    \A s \in AnalyzedModules \ {RootSpecifier} :
      \A i \in BlockAt(s) :
        /\ module_data[s].has_tla = TopLevelAwait(s)
        /\ final_text[i + 1] = IF TopLevelAwait(s) THEN "await (async () => {\n"
                               ELSE "(() => {\n"

\* C19: a module whose await expressions are all inside a function
\* declaration, function expression, arrow function or class method ends
\* analysis with has_tla unset.
C19_AwaitInFunctionIsNotTopLevel ==
  \A s \in AnalyzedModules :
    (Analyzed(s) /\ ~TopLevelAwait(s)
       /\ \E i \in 1..Len(ItemsOf(s)) : HoldsAwait(ItemsOf(s)[i]))
      => ~module_data[s].has_tla

\* C20: once a module is analyzed, each identifier of its text that names
\* one of its import aliases, outside the import declarations, has a text
\* change that replaces it by the namespace-qualified name, or lies in a
\* range that is removed; this holds in the expression of an
\* `export default` too, in an exported declaration, in the root and in any
\* other module.
C20_EveryAliasQualified ==
  \A s \in AnalyzedModules :
    Analyzed(s) => \A off \in UsesOf(s) : RewrittenOrRemoved(s, off)

\* the identifiers a binding pattern binds: the binding identifiers in it,
\* the shorthand properties of its object patterns, never a property key
RECURSIVE BoundNames(_)
BoundNames(pat) ==
  IF pat.kind \in {"BindingIdent", "AssignPatProp"} THEN {Idents(pat)[1].sym}
  ELSE UNION {BoundNames(Children(pat)[j]) :
                j \in {n \in 1..Len(Children(pat)) :
                         Children(pat)[n].kind \notin LeafKinds}}

\* the exported variable declarations among the items of a module
ExportedVarDecls(s) ==
  {i \in 1..Len(ItemsOf(s)) :
     /\ ItemsOf(s)[i].kind = "ExportDecl"
     /\ Children(ItemsOf(s)[i])[1].kind = "VarDecl"
     /\ "declare" \notin Children(ItemsOf(s)[i])[1].flags}

\* the identifiers the exported variable declarations of a module bind
ExportedVarNames(s) ==
  UNION {BoundNames(
           ChildrenOfKind(Children(ItemsOf(s)[i])[1], {"VarDeclarator"})[1].parts[1]) :
           i \in ExportedVarDecls(s)}

\* every export of the module is an exported variable declaration
OnlyVarExports(s) ==
  \A i \in 1..Len(ItemsOf(s)) :
    ItemsOf(s)[i].kind \in ModuleDeclKinds \ {"ImportDecl"}
      => i \in ExportedVarDecls(s)

\* C21: when pack returns, a module but the root whose exports are all
\* `export const` declarations has one export entry per identifier that
\* these declarations bind, and the local_name of each entry is such an
\* identifier: a destructuring pattern `{ k: v, ...rest }` records v and
\* rest.
C21_ExportsAreBoundNames ==
  pc = "done" =>
    \A s \in AnalyzedModules \ {RootSpecifier} :
      (OnlyVarExports(s) /\ ExportedVarDecls(s) # {}) =>
        /\ {module_data[s].exports[n].local_name :
              n \in 1..Len(module_data[s].exports)} = ExportedVarNames(s)
        /\ Len(module_data[s].exports) = Cardinality(ExportedVarNames(s))

\* the default imports of a module: <<local name, imported module>>
DefaultImportsOf(s) ==
  {<<graph[s].source[i].a, ResolveDependency(graph, graph[s].source[i].src)[1]>> :
     i \in {n \in 1..Len(graph[s].source) :
              /\ graph[s].source[n].k \in {"import_default", "import_json"}
              /\ ResolveDependency(graph, graph[s].source[n].src) # <<>>}}

\* the module has a default export that is a value
HasDefaultExport(d) ==
  \/ graph[d].kind = "Json"
  \/ /\ graph[d].kind = "Esm"
     /\ \E i \in 1..Len(graph[d].source) :
          \/ graph[d].source[i].k \in {"export_default_class", "export_default_fn",
                                       "export_default_expr"}
          \/ /\ graph[d].source[i].k \in {"export_named", "export_named_from"}
             /\ graph[d].source[i].b = "default"

\* the output defines the member m of the namespace object of d: by a
\* property definition in the block of d, or in the literal of a JSON module
DefinesMember(d, m) ==
  IF graph[d].kind = "Json"
    THEN HasChunk(HeaderOf(d) \o "const " \o ToCodeString(module_data[d].id)
                  \o " = {\n  " \o m \o ": " \o Join(Trim(graph[d].source))
                  \o "\n};\n")
    ELSE DefinitionsOf(d, m) # {}

\* C22: when pack returns, the member that a default import of an inlined
\* module (an analyzed module, or a JSON file) is rewritten to is a member that the output defines on the
\* namespace object of that module, whether the default export is a class,
\* a function, an expression, a binding exported or re-exported as default,
\* or a JSON module.
C22_DefaultMemberDefined ==
  pc = "done" =>
    \A s \in AnalyzedModules :
      \A im \in DefaultImportsOf(s) :
        (/\ im[2] \in DOMAIN module_data
         /\ im[2] # RootSpecifier
         /\ \/ graph[im[2]].kind = "Json" /\ IsFile(im[2])
            \/ im[2] \in AnalyzedModules
         /\ HasDefaultExport(im[2])) =>
          \E m \in {SortedNames[n] : n \in 1..Len(SortedNames)} :
            /\ ReplaceIdsOf(s)[<<im[1], "top">>]
                 = ToCodeString(module_data[im[2]].id) \o "." \o m
            /\ DefinesMember(im[2], m)

C22_Witness ==
  /\ pc = "done"
  /\ graph \in DefaultAliasPrograms
  /\ graph[SpecA].source[1] = It("export_named_from", "./b.ts", "x", "default")
  /\ HasChunk(DefineProperty("pack0", "default", "pack2.x"))
  /\ HasChunk("console.log(pack0.default);")

\* the source of a module with its import declarations moved above
\* everything else, the imports and the other items in their own order
ImportsFirst(source) ==
  SelectSeq(source, LAMBDA it : it.k \in ImportItemKinds)
  \o SelectSeq(source, LAMBDA it : it.k \notin ImportItemKinds)

\* an export declaration of the module stands above one of its imports
ExportAboveImport(s) ==
  \E i, j \in 1..Len(graph[s].source) :
    /\ i < j
    /\ graph[s].source[i].k \in ExportItemKinds
    /\ graph[s].source[j].k \in ImportItemKinds

\* C23: when pack returns, the exports and re_exports of every analyzed
\* module are the ones pack records for it when the import declarations of
\* the module are moved above its other items: `export { b }` above
\* `import { b } from "./b.ts"` records the entry it records below it.
C23_OrderOfImportsAndExports ==
  pc = "done" =>
    \A s \in AnalyzedModules :
      With(RegistryOf([graph EXCEPT ![s].source = ImportsFirst(@)],
                      include_remote),
           LAMBDA md :
             /\ s \in DOMAIN md
             /\ md[s].exports = module_data[s].exports
             /\ md[s].re_exports = module_data[s].re_exports)

C23_Witness ==
  /\ pc = "done"
  /\ graph \in OrderPrograms
  /\ ExportAboveImport(SpecA)
  /\ Len(graph[SpecA].source) = 4
  /\ module_data[SpecA].exports = <<ExportName("pack2.b", Some("b"))>>
  /\ Len(module_data[SpecA].re_exports) = 2

\* the items `export { a }` and `export { a as b }` of a module that export
\* a value
LocalExportSpecifiers(s) ==
  {n \in 1..Len(graph[s].source) : graph[s].source[n].k = "export_named"}

\* what the local side of such a specifier is recorded as
LocalSideOf(s, it) ==
  IF <<it.a, "top">> \in DOMAIN ReplaceIdsOf(s)
    THEN ReplaceIdsOf(s)[<<it.a, "top">>]
    ELSE it.a

\* the name importers of the module see the specifier under
VisibleNameOf(it) == IF it.b # "" THEN it.b ELSE it.a

\* C24: once a module is analyzed, each specifier of an `export { a, b as c }`
\* without source that exports a value has an export entry whose local_name
\* is the replacement of the import alias it names, or else its own text,
\* and whose export_name is the name after `as`, or else its own text when
\* the local side was replaced, or else absent; when pack returns, the block
\* of a module but the root defines the property of the name importers see,
\* bound to that local side.
C24_LocalExportSpecifiers ==
  \A s \in AnalyzedModules :
    Analyzed(s) =>
      \A n \in LocalExportSpecifiers(s) :
        With(graph[s].source[n], LAMBDA it :
          /\ \E e \in 1..Len(module_data[s].exports) :
               module_data[s].exports[e]
                 = ExportName(LocalSideOf(s, it),
                              IF it.b # "" THEN Some(it.b)
                              ELSE IF LocalSideOf(s, it) # it.a THEN Some(it.a)
                              ELSE None)
          /\ (pc = "done" /\ s # RootSpecifier) =>
               HasChunk(DefineProperty(ToCodeString(module_data[s].id),
                                       VisibleNameOf(it), LocalSideOf(s, it))))

C24_Witness ==
  /\ pc = "done"
  /\ graph \in OrderPrograms
  /\ graph[SpecA].source[1] = It("export_named", "", "b", "c")
  /\ HasChunk(DefineProperty("pack0", "c", "pack2.b"))

\* the forms of an item that is a type-only construct
TypeOnlyItemKinds ==
  {"interface", "declare_var", "export_interface", "export_type",
   "export_declare_const", "export_declare_fn", "export_default_interface",
   "import_type", "import_named_type", "export_named_type",
   "export_named_from_type", "export_type_from"}

\* the names that the type-only constructs of a module introduce or export
TypeOnlyNames(s) ==
  {graph[s].source[n].a :
     n \in {i \in 1..Len(graph[s].source) :
              graph[s].source[i].k \in TypeOnlyItemKinds}}

\* the local and exported names of the exports and re-exports of a module
EntryNames(s) ==
  UNION {{module_data[s].exports[n].local_name}
           \cup {module_data[s].exports[n].export_name[j] :
                   j \in 1..Len(module_data[s].exports[n].export_name)} :
           n \in 1..Len(module_data[s].exports)}
  \cup UNION {{module_data[s].re_exports[n].name.local_name}
                \cup {module_data[s].re_exports[n].name.export_name[j] :
                        j \in 1..Len(module_data[s].re_exports[n].name.export_name)} :
                n \in {i \in 1..Len(module_data[s].re_exports) :
                         module_data[s].re_exports[i].name.tag # "All"}}

\* C25: once a module is analyzed, no name that only a type-only construct
\* of it introduces (an interface, a type alias, a `declare` declaration, a
\* type-only import or export declaration, a `type X` specifier) is the
\* local or exported name of one of its exports or re-exports, or an import
\* alias with a replacement.
C25_TypeOnlyRecordsNothing ==
  \A s \in AnalyzedModules :
    Analyzed(s) =>
      \A n \in TypeOnlyNames(s) :
        /\ n \notin EntryNames(s)
        /\ <<n, "top">> \notin DOMAIN ReplaceIdsOf(s)

\* the ids of the registry are 0 .. n-1
DenseIds ==
  {module_data[s].id : s \in DOMAIN module_data}
    = 0..(Cardinality(DOMAIN module_data) - 1)

\* a specifier touched for the first time gets the number of specifiers
\* touched before it, and no other specifier changes its id
FirstTouchId ==
  \A s \in DOMAIN module_data' :
    module_data'[s].id = IF s \in DOMAIN module_data THEN module_data[s].id
                         ELSE Cardinality(DOMAIN module_data)

\* C26: over any sequence of get_mut calls, the k-th distinct specifier gets
\* the id k-1 at its first touch, so the ids of the registry are always
\* 0 .. n-1, and no call gives a specifier another id or an id already
\* handed out.
C26_SequentialIds == []DenseIds /\ [][FirstTouchId]_vars

C26_Witness ==
  /\ pc = "registry"
  /\ idx = MaxCalls
  /\ DOMAIN module_data = {SpecA, SpecB, RootSpecifier}
  /\ module_data[SpecA].id = 0
  /\ module_data[SpecB].id = 1
  /\ module_data[RootSpecifier].id = 2

\* no module was read more than once by the running query
VisitedOnce == \A s \in AllSpecifiers : query.visits[s] <= 1

\* C27: a get_export_names query on a registry, with re-export rings of
\* one, two and three modules and with two paths to one module, returns,
\* and at no point of it has inner read the data of a module twice.
C27_QueryTerminates == []VisitedOnce /\ <>(pc = "returned")

\* the query on c has gone round the ring c -> b -> a -> c
C27_Witness ==
  /\ pc = "returned"
  /\ query.specifier = <<SpecC>>
  /\ AllEdges(SpecA) = {SpecC}
  /\ AllEdges(SpecB) = {SpecA}
  /\ AllEdges(SpecC) = {SpecB}
  /\ query.seen = {SpecA, SpecB, SpecC}
  /\ \A s \in query.seen : query.visits[s] = 1

\* the names of the model
Names == {SortedNames[n] : n \in 1..Len(SortedNames)}

\* the texts that name the namespace object of a module or a member of it
QualifiedNames(d) ==
  {ToCodeString(module_data[d].id)}
  \cup {ToCodeString(module_data[d].id) \o "." \o n : n \in Names}

\* the modules whose pack<N> name the output of s holds: in the text that
\* replaces an import alias, or as the target of a getter of its block
ReferencedBy(s) ==
  {d \in DOMAIN module_data :
     \/ \E c \in 1..Len(module_data[s].text_changes) :
          \E j \in 1..Len(module_data[s].text_changes[c].new_text) :
            module_data[s].text_changes[c].new_text[j] \in QualifiedNames(d)
     \/ \E i \in 1..Len(final_text) : \E n \in Names :
          \E target \in QualifiedNames(d) :
            final_text[i]
              = DefineProperty(ToCodeString(module_data[s].id), n, target)}

\* the output declares the pack<N> name of the module: as a namespace
\* object, as the object of a JSON module, or as an `import * as` binding
Declared(d) ==
  \/ HasChunk("const " \o ToCodeString(module_data[d].id) \o " = {\n")
  \/ HasChunk(ImportLine(d))
  \/ d \in DOMAIN graph /\ graph[d].kind = "Json" /\ DefinesMember(d, "default")

\* C28: when pack returns, every module whose pack<N> name stands in the
\* output of an analyzed module, as the rewrite of an import alias or as the
\* target of a getter, has that name declared in the output: for a
\* namespace import of a module without exports and for an import of the
\* root too.
C28_ReferencedNamesDeclared ==
  pc = "done" =>
    \A s \in AnalyzedModules : \A d \in ReferencedBy(s) : Declared(d)

\* the positions of the opening line of the namespace object of a module
LiteralAt(s) ==
  {i \in 1..Len(final_text) :
     final_text[i] = "const " \o ToCodeString(module_data[s].id) \o " = {\n"}

\* the names with an `undefined` placeholder in the namespace object that
\* opens at position i: those between the opening and the closing line
PlaceholdersAt(i) ==
  {n \in Names :
     \E j \in (i + 1)..Len(final_text) :
       /\ final_text[j] = "  " \o n \o ": undefined,\n"
       /\ \A k \in (i + 1)..j : final_text[k] # "};\n"}

\* the names of the properties that the output defines on the namespace
\* object of a module
DefinedProperties(s) == {n \in Names : DefinitionsOf(s, n) # {}}

\* C29: when pack returns, every inlined module but the root that has a
\* namespace object among the forward declarations has its block in the
\* output, and the names with a placeholder in the object are the names of
\* the properties that the block defines on it.
C29_PlaceholdersAreDefined ==
  pc = "done" =>
    \A s \in AnalyzedModules \ {RootSpecifier} :
      \A i \in LiteralAt(s) :
        /\ BlockAt(s) # {}
        /\ PlaceholdersAt(i) = DefinedProperties(s)

\* a.ts exports x and re-exports everything of b.ts, which exports b and x
C29_Witness ==
  /\ pc = "done"
  /\ graph \in StarPrograms
  /\ LiteralAt(SpecA) # {}
  /\ DefinedProperties(SpecA) = {"b", "x"}
  /\ \E i \in LiteralAt(SpecA) : PlaceholdersAt(i) = {"b", "x"}

\* the module stands in the output as an external import statement
EmittedExternal(s) == HasChunk(ImportLine(s))

\* the module stands in the output as an inlined block that defines
\* properties on its namespace object
EmittedInlined(s) == BlockAt(s) # {} /\ DefinedProperties(s) # {}

\* C30: when pack returns, whatever include_remote is, no walked module
\* stands in the output both as an external `import * as pack<N>` statement
\* and as an inlined block that defines properties on the same pack<N>.
C30_OneFormPerModule ==
  pc = "done" =>
    \A s \in Walked : ~(EmittedExternal(s) /\ EmittedInlined(s))

====
